---- MODULE Spec2Model ----
(***************************************************************************)
(* The book metadata cache (BookCacheService), the rating / summary        *)
(* enrichment built on it, and the title search and the table of known     *)
(* ratings of server/books.ts, as a state machine.                         *)
(*                                                                         *)
(* Strings are sequences of one-character strings, so that trimming, case  *)
(* folding, substring containment, number parsing and number formatting    *)
(* are computed as the code computes them.  Times are whole minutes.       *)
(* Every await of the code is one step of a process; a specification with  *)
(* one process runs the operations one after the other, one with two       *)
(* processes interleaves them.                                             *)
(***************************************************************************)
EXTENDS Integers, Sequences, FiniteSets, TLC

VARIABLES store, nextId, now, limiter, faults, ops, proc

vars == <<store, nextId, now, limiter, faults, ops, proc>>

----------------------------------------------------------------------------
(* Bounds of the model *)

\* invocations started in one behaviour
MaxOps == 2
\* clock advances in one behaviour
MaxTicks == 1
\* injected data-store / provider failures in one behaviour
MaxFaults == 1
\* permits the rate limiter grants per provider
Budget == 1

----------------------------------------------------------------------------
(* Strings *)

\* an absent string (undefined, null)
Null == <<"null">>

\* an absent Date
NoDate == 0

\* an absent source
NoSource == "absent"

UpperToLower ==
  ("A" :> "a") @@ ("B" :> "b") @@ ("C" :> "c") @@ ("D" :> "d") @@ ("E" :> "e") @@ ("F" :> "f") @@ ("G" :> "g") @@ ("H" :> "h") @@ ("I" :> "i") @@ ("J" :> "j") @@ ("K" :> "k") @@ ("L" :> "l") @@ ("M" :> "m")
  @@ ("N" :> "n") @@ ("O" :> "o") @@ ("P" :> "p") @@ ("Q" :> "q") @@ ("R" :> "r") @@ ("S" :> "s") @@ ("T" :> "t") @@ ("U" :> "u") @@ ("V" :> "v") @@ ("W" :> "w") @@ ("X" :> "x") @@ ("Y" :> "y") @@ ("Z" :> "z")

\* String.prototype.toLowerCase / SQL LOWER, on the characters of the model
toLowerCase(s) ==
  [i \in 1..Len(s) |-> IF s[i] \in DOMAIN UpperToLower THEN UpperToLower[s[i]] ELSE s[i]]

IsSpace(c) == c \in {" ", "\t", "\n"}

\* String.prototype.trim: strips white space at both ends
trim(s) ==
  LET keep == {i \in 1..Len(s) : ~IsSpace(s[i])}
  IN  IF keep = {} THEN <<>>
      ELSE LET lo == CHOOSE i \in keep : \A j \in keep : i <= j
               hi == CHOOSE i \in keep : \A j \in keep : i >= j
           IN  SubSeq(s, lo, hi)

\* SQL TRIM: strips blanks only
sqlTrim(s) ==
  LET keep == {i \in 1..Len(s) : s[i] # " "}
  IN  IF keep = {} THEN <<>>
      ELSE LET lo == CHOOSE i \in keep : \A j \in keep : i <= j
               hi == CHOOSE i \in keep : \A j \in keep : i >= j
           IN  SubSeq(s, lo, hi)

\* s.includes(t), and `s LIKE '%t%'` for a t without wildcards
includes(s, t) ==
  \E i \in 0..(Len(s) - Len(t)) : SubSeq(s, i + 1, i + Len(t)) = t

\* JavaScript truthiness of an optional string
Truthy(x) == x # Null /\ x # <<>>

\* a || b on optional strings
OrElse(a, b) == IF Truthy(a) THEN a ELSE b

----------------------------------------------------------------------------
(* Numbers in strings.  A number is held in hundredths. *)

\* a number, or NaN
Num(v) == [nan |-> FALSE, v |-> v]
NaN == [nan |-> TRUE, v |-> 0]

\* x >= 1.0 && x <= 5.0, which NaN fails
InRatingRange(x) == ~x.nan /\ x.v >= 100 /\ x.v <= 500

Digits == {"0", "1", "2", "3", "4", "5", "6", "7", "8", "9"}

DigitValue ==
  ("0" :> 0) @@ ("1" :> 1) @@ ("2" :> 2) @@ ("3" :> 3) @@ ("4" :> 4) @@
  ("5" :> 5) @@ ("6" :> 6) @@ ("7" :> 7) @@ ("8" :> 8) @@ ("9" :> 9)

DigitChar == <<"0", "1", "2", "3", "4", "5", "6", "7", "8", "9">>

\* length of the run of digits of s that starts at position i
RECURSIVE DigitRun(_, _)
DigitRun(s, i) ==
  IF i <= Len(s) /\ s[i] \in Digits THEN 1 + DigitRun(s, i + 1) ELSE 0

\* value of a string of digits
RECURSIVE DigitsValue(_)
DigitsValue(d) ==
  IF d = <<>> THEN 0
  ELSE 10 * DigitsValue(SubSeq(d, 1, Len(d) - 1)) + DigitValue[d[Len(d)]]

\* hundredths denoted by the fraction digits f (digits past the second are cut)
FractionHundredths(f) ==
  IF Len(f) = 0 THEN 0
  ELSE IF Len(f) = 1 THEN 10 * DigitValue[f[1]]
  ELSE 10 * DigitValue[f[1]] + DigitValue[f[2]]

\* parseFloat: leading white space, an optional sign, digits, an optional
\* fraction; NaN when no number starts the string
parseFloat(str) ==
  LET lead == {i \in 1..Len(str) : ~IsSpace(str[i])}
      s    == IF lead = {} THEN <<>>
              ELSE SubSeq(str, CHOOSE i \in lead : \A j \in lead : i <= j, Len(str))
      neg  == Len(s) > 0 /\ s[1] = "-"
      b    == IF Len(s) > 0 /\ s[1] \in {"-", "+"} THEN 2 ELSE 1
      n    == DigitRun(s, b)
      dot  == b + n <= Len(s) /\ s[b + n] = "."
      m    == IF dot THEN DigitRun(s, b + n + 1) ELSE 0
      abs  == 100 * DigitsValue(SubSeq(s, b, b + n - 1))
              + FractionHundredths(SubSeq(s, b + n + 1, b + n + m))
  IN  IF n = 0 /\ m = 0 THEN NaN
      ELSE IF neg THEN Num(0 - abs) ELSE Num(abs)

\* ratingText.match(/(\d+(?:\.\d+)?)/): the first number of the text, or Null
firstNumber(text) ==
  LET at == {i \in 1..Len(text) : text[i] \in Digits}
  IN  IF at = {} THEN Null
      ELSE LET i == CHOOSE k \in at : \A j \in at : k <= j
               n == DigitRun(text, i)
               m == IF i + n <= Len(text) /\ text[i + n] = "."
                    THEN DigitRun(text, i + n + 1) ELSE 0
           IN  IF m > 0 THEN SubSeq(text, i, i + n + m)
               ELSE SubSeq(text, i, i + n - 1)

\* the hundredths x.x5 in [1, 5] whose double lies below the decimal, so that
\* toFixed(1) rounds them down
HalfBelow ==
  {115, 145, 165, 195, 205, 215, 255, 265, 305, 315, 355, 365, 405, 435, 455, 485}

\* Number.prototype.toFixed(1) of v hundredths, 0 <= v < 1000
toFixed1(v) ==
  LET tenths == IF v % 10 < 5 \/ (v % 10 = 5 /\ v \in HalfBelow)
                THEN v \div 10 ELSE v \div 10 + 1
  IN  <<DigitChar[(tenths \div 10) + 1], ".", DigitChar[(tenths % 10) + 1]>>

\* /^\d\.\d$/
IsOneDigitDotOneDigit(s) ==
  /\ s # Null
  /\ Len(s) = 3
  /\ s[1] \in Digits /\ s[2] = "." /\ s[3] \in Digits

----------------------------------------------------------------------------
(* The cache table *)

Day == 24 * 60

\* CACHE_DURATION and DEFAULT_EXPIRATION, in minutes
CACHE_DURATION_GOOGLE == 365 * Day
CACHE_DURATION_AMAZON == 7 * Day
CACHE_DURATION_OPENAI == 365 * Day
DEFAULT_EXPIRATION == 7 * Day

\* no row: what a select of nothing, or a failed lookup, yields
NoRow ==
  [id |-> 0, title |-> Null, author |-> Null, isbn |-> Null, coverUrl |-> Null,
   rating |-> Null, summary |-> Null, source |-> NoSource, metadata |-> Null,
   expiresAt |-> NoDate]

\* a choice of source that lets the source the caller supplies win over the
\* content of the write
determineSourceSupplied(bookData) ==
  IF bookData.source # NoSource THEN bookData.source
  ELSE IF Truthy(bookData.summary) \/ Truthy(bookData.rating) THEN "openai"
  ELSE "google"

\* the source chosen by cacheBook: stored rating or summary text makes it openai
determineSource(bookData) ==
  IF Truthy(bookData.summary) \/ Truthy(bookData.rating) THEN "openai"
  ELSE IF bookData.source # NoSource THEN bookData.source
  ELSE "google"

expirationMs(source) ==
  CASE source = "google" -> CACHE_DURATION_GOOGLE
    [] source = "amazon" -> CACHE_DURATION_AMAZON
    [] source = "openai" -> CACHE_DURATION_OPENAI
    [] source = "saved"  -> CACHE_DURATION_OPENAI
    [] OTHER             -> DEFAULT_EXPIRATION

\* expiresAt of a cacheBook write made at time t
computeExpiresAt(bookData, source, t) ==
  IF bookData.expiresAt # NoDate THEN bookData.expiresAt
  ELSE t + expirationMs(source)

\* a direct query that, like the queries of findInCache, also asks for a row
\* that has not expired: the properties of the store must tell it apart
directMatchesUnexpired(st, bookData) ==
  {r \in st :
     /\ toLowerCase(sqlTrim(r.title)) = toLowerCase(trim(bookData.title))
     /\ toLowerCase(sqlTrim(r.author)) = toLowerCase(trim(bookData.author))
     /\ r.expiresAt >= now}

\* rows the direct query of cacheBook selects (no expiry condition)
directMatches(st, bookData) ==
  {r \in st :
     /\ toLowerCase(sqlTrim(r.title)) = toLowerCase(trim(bookData.title))
     /\ toLowerCase(sqlTrim(r.author)) = toLowerCase(trim(bookData.author))}

\* the author condition shared by both queries of findInCache
authorMatches(r, normalizedAuthor) ==
  \/ toLowerCase(r.author) = normalizedAuthor
  \/ includes(toLowerCase(r.author), normalizedAuthor)
  \/ includes(normalizedAuthor, toLowerCase(r.author))

\* a first query that selects nothing
exactMatchesNone(st, title, author, t) == {}

\* a first query that leaves the expiry condition out
exactMatchesAnyAge(st, title, author, t) ==
  LET normalizedTitle  == trim(toLowerCase(title))
      normalizedAuthor == trim(toLowerCase(author))
  IN  {r \in st :
         /\ toLowerCase(r.title) = normalizedTitle
         /\ authorMatches(r, normalizedAuthor)}

\* rows the first query of findInCache selects at time t
exactMatches(st, title, author, t) ==
  LET normalizedTitle  == trim(toLowerCase(title))
      normalizedAuthor == trim(toLowerCase(author))
  IN  {r \in st :
         /\ toLowerCase(r.title) = normalizedTitle
         /\ authorMatches(r, normalizedAuthor)
         /\ r.expiresAt >= t}

\* rows the second query of findInCache selects at time t
partialMatches(st, title, author, t) ==
  LET normalizedTitle  == trim(toLowerCase(title))
      normalizedAuthor == trim(toLowerCase(author))
  IN  {r \in st :
         /\ \/ includes(toLowerCase(r.title), normalizedTitle)
            \/ includes(normalizedTitle, toLowerCase(r.title))
         /\ \/ includes(toLowerCase(r.author), normalizedAuthor)
            \/ includes(normalizedAuthor, toLowerCase(r.author))
         /\ r.expiresAt >= t}

\* what findInCache may return at time t on a store that does not change
\* in between: the first row of the exact query, else of the partial query;
\* the order of the rows of a query is the data store's
findInCache(st, title, author, t) ==
  IF exactMatches(st, title, author, t) # {} THEN exactMatches(st, title, author, t)
  ELSE IF partialMatches(st, title, author, t) # {} THEN partialMatches(st, title, author, t)
  ELSE {NoRow}

\* rows the query of findByISBN selects at time t
findByISBN(st, isbn, t) ==
  IF ~Truthy(isbn) \/ Len(isbn) < 10 THEN {NoRow}
  ELSE LET hit == {r \in st : r.isbn = isbn /\ r.expiresAt >= t}
       IN  IF hit = {} THEN {NoRow} ELSE hit

\* the columns an update sets, laid over the stored row
setColumns(row, values) ==
  [f \in DOMAIN row |-> IF f \in DOMAIN values THEN values[f] ELSE row[f]]

\* an update that loses the row it was to change
updateDropping(st, id, values) == {r \in st : r.id # id}

\* UPDATE ... SET values WHERE id = id
update(st, id, values) ==
  {IF r.id = id THEN setColumns(r, values) ELSE r : r \in st}

\* an update that writes the incoming fields as they come, empty or not
cacheBookValuesOverwrite(matched, bookData, source, expiresAt) ==
  [isbn      |-> bookData.isbn,
   coverUrl  |-> bookData.coverUrl,
   rating    |-> bookData.rating,
   summary   |-> bookData.summary,
   source    |-> source,
   metadata  |-> bookData.metadata,
   expiresAt |-> expiresAt]

\* an update that also writes the title and the author of the incoming data
cacheBookValuesRetitled(matched, bookData, source, expiresAt) ==
  [title     |-> trim(bookData.title),
   author    |-> trim(bookData.author),
   isbn      |-> OrElse(bookData.isbn, matched.isbn),
   coverUrl  |-> OrElse(bookData.coverUrl, matched.coverUrl),
   rating    |-> OrElse(bookData.rating, matched.rating),
   summary   |-> OrElse(bookData.summary, matched.summary),
   source    |-> source,
   metadata  |-> OrElse(bookData.metadata, matched.metadata),
   expiresAt |-> expiresAt]

\* the columns cacheBook sets on the row it matched
cacheBookValues(matched, bookData, source, expiresAt) ==
  [isbn      |-> OrElse(bookData.isbn, matched.isbn),
   coverUrl  |-> OrElse(bookData.coverUrl, matched.coverUrl),
   rating    |-> OrElse(bookData.rating, matched.rating),
   summary   |-> OrElse(bookData.summary, matched.summary),
   source    |-> source,
   metadata  |-> OrElse(bookData.metadata, matched.metadata),
   expiresAt |-> expiresAt]

\* the row cacheBook inserts
insertedRow(id, bookData, source, expiresAt) ==
  [id        |-> id,
   title     |-> trim(bookData.title),
   author    |-> trim(bookData.author),
   isbn      |-> OrElse(bookData.isbn, Null),
   coverUrl  |-> OrElse(bookData.coverUrl, Null),
   rating    |-> OrElse(bookData.rating, Null),
   summary   |-> OrElse(bookData.summary, Null),
   source    |-> source,
   metadata  |-> OrElse(bookData.metadata, Null),
   expiresAt |-> expiresAt]

\* the stored row of an id, NoRow when it is gone
rowOfId(st, id) ==
  IF \E r \in st : r.id = id THEN CHOOSE r \in st : r.id = id ELSE NoRow

\* the first row of a query result, in the data store's order
firstOf(rows) == IF rows = {} THEN {NoRow} ELSE rows

----------------------------------------------------------------------------
(* Collaborators that are not part of the cache service *)

\* getEstimatedBookRating (utils/book-utils): a deterministic estimate keyed
\* on title and author, which never fails
getEstimatedBookRating(title, author) ==
  <<"3", ".", DigitChar[((Len(title) + Len(author)) % 10) + 1]>>

\* rateLimiter.checkAndIncrement: TRUE and one more permit used while the
\* provider's budget lasts, FALSE and nothing changed afterwards
checkAndIncrement(lim, provider) ==
  IF lim[provider] < Budget
  THEN [ok |-> TRUE,  lim |-> [lim EXCEPT ![provider] = @ + 1]]
  ELSE [ok |-> FALSE, lim |-> lim]

Providers == {"openai", "google-books", "open-library"}

----------------------------------------------------------------------------
(* Inputs *)

Dune        == <<"D", "u", "n", "e">>
DuneSpaced  == <<" ", "d", "u", "n", "e", " ">>
DuneMessiah == <<"D", "u", "n", "e", " ", "M", "e", "s", "s", "i", "a", "h">>
FrankHerbert == <<"F", "r", "a", "n", "k", " ", "H", "e", "r", "b", "e", "r", "t">>
Herbert      == <<"H", "e", "r", "b", "e", "r", "t">>
Isbn13      == <<"9", "7", "8", "0", "4", "4", "1", "0", "1", "3", "5", "9", "3">>
ASaga       == <<"A", " ", "s", "a", "g", "a", ".">>

NoData ==
  [title |-> <<>>, author |-> <<>>, isbn |-> Null, coverUrl |-> Null,
   rating |-> Null, summary |-> Null, metadata |-> Null, source |-> NoSource,
   expiresAt |-> NoDate]

\* the writes cacheBook is called with at time t
BookDataInputs(t) ==
  {[NoData EXCEPT !.title = Dune, !.author = FrankHerbert,
                  !.isbn = Isbn13, !.rating = <<"4">>, !.source = "google"],
   [NoData EXCEPT !.title = DuneSpaced, !.author = FrankHerbert,
                  !.coverUrl = <<"cover1">>, !.source = "amazon"],
   [NoData EXCEPT !.title = DuneMessiah, !.author = FrankHerbert,
                  !.summary = ASaga, !.expiresAt = t + 120 * Day],
   [NoData EXCEPT !.title = Dune, !.author = Herbert,
                  !.rating = <<"4", ".", "5">>, !.metadata = <<"meta1">>],
   [NoData EXCEPT !.title = DuneMessiah, !.author = FrankHerbert,
                  !.coverUrl = <<"cover2">>, !.source = "saved",
                  !.expiresAt = t - 1]}

\* the calls of getEnhancedRating: title, author, isbn
RatingInputs ==
  {<<Dune, FrankHerbert, Null>>, <<DuneMessiah, FrankHerbert, Isbn13>>}

\* what the generative provider answers to a rating request
RatingTexts ==
  {<<"4", ".", "5">>, <<"n", "/", "a">>}

\* the calls of getEnhancedSummary: title, author, existingSummary
SummaryInputs ==
  {<<Dune, FrankHerbert, Null>>, <<DuneMessiah, Herbert, <<"o", "l", "d">>>>}

\* what the generative provider answers to a summary request
SummaryTexts ==
  {<<" ", "A", " ", "s", "a", "g", "a", ".", " ">>, <<" ">>}

\* the calls of clearCacheForTesting: preserveDescriptions, titleFilter
ResetInputs ==
  {<<TRUE, Null>>, <<FALSE, <<"M", "e", "s", "s">>>>, <<FALSE, Null>>}

----------------------------------------------------------------------------
(* Processes: one invocation each, a step per await *)

Procs == {1, 2}

Idle ==
  [pc |-> "idle", op |-> "none",
   title |-> <<>>, author |-> <<>>, isbn |-> Null, existingSummary |-> Null,
   configured |-> FALSE,
   bookData |-> NoData, cbRet |-> "none",
   fcTitle |-> <<>>, fcAuthor |-> <<>>, fcRet |-> "none", found |-> NoRow,
   directMatch |-> NoRow, source |-> NoSource, expiresAt |-> NoDate,
   cachedBook |-> NoRow, isbnBook |-> NoRow, permit |-> "none",
   ratingText |-> Null, rating |-> Null, isOpenAIRating |-> FALSE,
   summary |-> Null,
   result |-> Null, returned |-> NoRow, count |-> 0, books |-> <<>>,
   candidates |-> <<>>, preferences |-> [genres |-> <<>>, goodreadsData |-> <<>>],
   from |-> <<>>,
   threw |-> FALSE,
   checks |-> 0, calls |-> 0, writes |-> 0,
   providerFailed |-> FALSE, writeFailed |-> FALSE,
   repeat |-> FALSE, pre |-> {}, startedAt |-> NoDate]

\* the invocation of process p is over (or none was started)
Free(p) == proc[p].pc \in {"idle", "done"}

\* an operation without a catch of its own: the exception reaches the caller
Rethrown(me) ==
  [me EXCEPT !.pc = "done", !.threw = TRUE]

\* where an exception thrown inside the operation ends: cacheBook logs and
\* rethrows to its caller, getEnhancedRating returns the estimate,
\* getEnhancedSummary the summary it was given, searchBooksByTitle no books
Caught(me) ==
  CASE me.op = "rating"  ->
         [me EXCEPT !.pc = "done",
                    !.result = getEstimatedBookRating(me.title, me.author)]
    [] me.op = "summary" ->
         [me EXCEPT !.pc = "done", !.result = OrElse(me.existingSummary, Null)]
    [] me.op = "search"  ->
         [me EXCEPT !.pc = "done", !.books = <<>>]
    [] OTHER ->
         [me EXCEPT !.pc = "done", !.threw = TRUE]

\* where cacheBook returns to with the row it wrote (NoRow: the update met
\* no row, and the caller's log of its id throws)
Returned(me, row) ==
  CASE me.cbRet = "r_isbn"    ->
         [me EXCEPT !.pc = "done", !.result = me.isbnBook.rating]
    [] me.cbRet = "r_persist" ->
         IF row = NoRow THEN Caught(me)
         ELSE [me EXCEPT !.pc = "done", !.result = me.rating]
    [] me.cbRet = "s_persist" ->
         IF row = NoRow THEN Caught(me)
         ELSE [me EXCEPT !.pc = "done", !.result = me.summary]
    [] OTHER ->
         [me EXCEPT !.pc = "done", !.returned = row]

\* a call of the data store or of a provider fails
Fault == faults < MaxFaults /\ faults' = faults + 1

\* cacheBook, called with bookData; it returns to ret
CallCacheBook(me, bookData, ret) ==
  [me EXCEPT !.pc = "cb_direct", !.bookData = bookData, !.cbRet = ret]

\* findInCache, called with (title, author); it returns to ret
CallFindInCache(me, title, author, ret) ==
  [me EXCEPT !.pc = "fc_exact", !.fcTitle = title, !.fcAuthor = author,
             !.fcRet = ret, !.found = NoRow]

\* getEnhancedRating from the check of the API key on: the estimate when the
\* provider is not configured, else the rate limiter
ratingFromProvider(me) ==
  IF ~me.configured
  THEN [me EXCEPT !.pc = "done",
                  !.result = getEstimatedBookRating(me.title, me.author)]
  ELSE [me EXCEPT !.pc = "r_limit"]

\* a getEnhancedRating that does not look at the row its first findInCache
\* found, and goes on to the ISBN and the provider
ratingAfterCacheNoHit(me) ==
  LET at == [me EXCEPT !.cachedBook = me.found]
  IN  IF Truthy(me.isbn) THEN [at EXCEPT !.pc = "r_isbn"]
      ELSE ratingFromProvider(at)

\* getEnhancedRating after its first findInCache
ratingAfterCache(me) ==
  LET cachedBook == me.found
      at == [me EXCEPT !.cachedBook = cachedBook]
  IN  IF Truthy(cachedBook.rating) /\ cachedBook.source = "openai"
      THEN [at EXCEPT !.pc = "done", !.result = cachedBook.rating]
      ELSE IF Truthy(me.isbn) THEN [at EXCEPT !.pc = "r_isbn"]
      ELSE ratingFromProvider(at)

\* a getEnhancedRating that returns the rating found by ISBN without caching
\* it under the title and author
ratingAfterISBNNotCached(me, isbnBook) ==
  LET at == [me EXCEPT !.isbnBook = isbnBook]
      ratingNum == IF isbnBook.rating = Null THEN NaN ELSE parseFloat(isbnBook.rating)
  IN  IF Truthy(isbnBook.rating) /\ ~ratingNum.nan /\ InRatingRange(ratingNum)
      THEN [at EXCEPT !.pc = "done", !.cbRet = "r_isbn",
                      !.result = isbnBook.rating]
      ELSE ratingFromProvider(at)

\* getEnhancedRating after findByISBN
ratingAfterISBN(me, isbnBook) ==
  LET at == [me EXCEPT !.isbnBook = isbnBook]
      ratingNum == IF isbnBook.rating = Null THEN NaN ELSE parseFloat(isbnBook.rating)
  IN  IF Truthy(isbnBook.rating) /\ ~ratingNum.nan /\ InRatingRange(ratingNum)
      THEN CallCacheBook(at,
             [NoData EXCEPT !.title = me.title, !.author = me.author,
                            !.isbn = me.isbn, !.rating = isbnBook.rating,
                            !.source = IF isbnBook.source # NoSource
                                       THEN isbnBook.source ELSE "openai"],
             "r_isbn")
      ELSE ratingFromProvider(at)

\* a getEnhancedRating that takes the number of the provider's answer as it
\* is written, without toFixed(1)
extractRatingUnrounded(content, title, author) ==
  LET ratingText == IF content = Null THEN <<>> ELSE trim(content)
      ratingMatch == firstNumber(ratingText)
      ratingNumber == IF ratingMatch = Null THEN NaN ELSE parseFloat(ratingMatch)
  IN  IF ratingMatch # Null /\ InRatingRange(ratingNumber)
      THEN [ratingText |-> ratingText, rating |-> ratingMatch,
            isOpenAIRating |-> TRUE]
      ELSE [ratingText |-> ratingText,
            rating |-> getEstimatedBookRating(title, author),
            isOpenAIRating |-> FALSE]

\* the rating getEnhancedRating takes from the provider's answer, and whether
\* it is the provider's
extractRating(content, title, author) ==
  LET ratingText == IF content = Null THEN <<>> ELSE trim(content)
      ratingMatch == firstNumber(ratingText)
      ratingNumber == IF ratingMatch = Null THEN NaN ELSE parseFloat(ratingMatch)
  IN  IF ratingMatch # Null /\ InRatingRange(ratingNumber)
      THEN [ratingText |-> ratingText, rating |-> toFixed1(ratingNumber.v),
            isOpenAIRating |-> TRUE]
      ELSE [ratingText |-> ratingText,
            rating |-> getEstimatedBookRating(title, author),
            isOpenAIRating |-> FALSE]

\* getEnhancedRating after its second findInCache, at time t
ratingAfterExisting(me, t) ==
  LET existingBook == me.found
      expiresAt == t + 90 * Day
  IN  IF existingBook # NoRow
      THEN [me EXCEPT !.pc = "r_update", !.expiresAt = expiresAt]
      ELSE CallCacheBook(me,
             [NoData EXCEPT !.title = trim(me.title), !.author = trim(me.author),
                            !.isbn = OrElse(me.isbn, Null), !.rating = me.rating,
                            !.source = IF me.isOpenAIRating THEN "openai" ELSE "google",
                            !.expiresAt = expiresAt],
             "r_persist")

\* the columns getEnhancedRating sets on the row it found
ratingValues(existingBook, rating, isOpenAIRating, isbn, expiresAt) ==
  [rating    |-> rating,
   source    |-> IF isOpenAIRating THEN "openai"
                 ELSE IF existingBook.source # NoSource THEN existingBook.source
                 ELSE "google",
   isbn      |-> OrElse(isbn, existingBook.isbn),
   expiresAt |-> expiresAt]

\* getEnhancedSummary after its first findInCache
summaryAfterCache(me) ==
  LET cachedBook == me.found
      at == [me EXCEPT !.cachedBook = cachedBook]
  IN  IF Truthy(cachedBook.summary) /\ cachedBook.source = "openai"
      THEN [at EXCEPT !.pc = "done", !.result = cachedBook.summary]
      ELSE [at EXCEPT !.pc = "s_limit"]

\* getEnhancedSummary after its second findInCache
summaryAfterExisting(me) ==
  IF me.found # NoRow
  THEN [me EXCEPT !.pc = "s_update"]
  ELSE CallCacheBook(me,
         [NoData EXCEPT !.title = trim(me.title), !.author = trim(me.author),
                        !.summary = me.summary, !.source = "openai",
                        !.expiresAt = me.expiresAt],
         "s_persist")

\* the columns getEnhancedSummary sets on the row it found
summaryValues(summary, expiresAt) ==
  [summary |-> summary, source |-> "openai", expiresAt |-> expiresAt]

\* findInCache returns row at time t: the caller runs on to its next await
AfterFind(me, row, t) ==
  LET at == [me EXCEPT !.found = row]
  IN  CASE me.fcRet = "r_cached"   -> ratingAfterCache(at)
        [] me.fcRet = "r_existing" -> ratingAfterExisting(at, t)
        [] me.fcRet = "s_cached"   -> summaryAfterCache(at)
        [] me.fcRet = "s_existing" -> summaryAfterExisting(at)
        [] me.fcRet = "lookup"     -> [at EXCEPT !.pc = "done", !.returned = row]
        [] OTHER                   -> [at EXCEPT !.pc = "cb_write"]

\* an invocation starts; the store and the time it starts at are kept with it
Fresh(op) ==
  [Idle EXCEPT !.op = op, !.pre = store, !.startedAt = now]

----------------------------------------------------------------------------
(* cacheBook and findInCache *)

\* cacheBook is called with bookData; repeat: the call before it was the same
\* call, and returned
StartCacheBook(p, bookData) ==
  /\ Free(p)
  /\ ops' = ops + 1
  /\ proc' = [proc EXCEPT ![p] =
       CallCacheBook(
         [Fresh("cacheBook") EXCEPT
            !.repeat = /\ proc[p].op = "cacheBook" /\ ~proc[p].threw
                       /\ proc[p].bookData = bookData],
         bookData, "done")]
  /\ UNCHANGED <<store, nextId, now, limiter, faults>>

BeginCacheBook(p, bookData) ==
  /\ ops < MaxOps
  /\ StartCacheBook(p, bookData)

\* cacheBook: source, the direct query, expiresAt
CbDirect(p) ==
  LET me     == proc[p]
      source == determineSource(me.bookData)
  IN  /\ me.pc = "cb_direct"
      /\ \/ /\ Fault
            /\ proc' = [proc EXCEPT ![p] = Caught(me)]
         \/ /\ UNCHANGED faults
            /\ \E directMatch \in firstOf(directMatches(store, me.bookData)) :
                 LET at == [me EXCEPT
                              !.source = source,
                              !.expiresAt = computeExpiresAt(me.bookData, source, now),
                              !.directMatch = directMatch]
                 IN  proc' = [proc EXCEPT ![p] =
                       IF directMatch # NoRow
                       THEN [at EXCEPT !.pc = "cb_update"]
                       ELSE CallFindInCache(at, trim(me.bookData.title),
                                            trim(me.bookData.author), "cb_fuzzy")]
      /\ UNCHANGED <<store, nextId, now, limiter, ops>>

\* cacheBook: the update of the directly matched row
CbUpdate(p) ==
  LET me == proc[p]
  IN  /\ me.pc = "cb_update"
      /\ \/ /\ Fault
            /\ proc' = [proc EXCEPT ![p] = Caught([me EXCEPT !.writeFailed = TRUE])]
            /\ UNCHANGED store
         \/ /\ UNCHANGED faults
            /\ store' = update(store, me.directMatch.id,
                 cacheBookValues(me.directMatch, me.bookData, me.source, me.expiresAt))
            /\ proc' = [proc EXCEPT ![p] =
                 Returned([me EXCEPT !.writes = @ + 1],
                          rowOfId(store', me.directMatch.id))]
      /\ UNCHANGED <<nextId, now, limiter, ops>>

\* findInCache: the exact query; a failure is logged and nothing is found
FcExact(p) ==
  LET me == proc[p]
  IN  /\ me.pc = "fc_exact"
      /\ \/ /\ Fault
            /\ proc' = [proc EXCEPT ![p] = AfterFind(me, NoRow, now)]
         \/ /\ UNCHANGED faults
            /\ \E exactMatch \in firstOf(exactMatches(store, me.fcTitle, me.fcAuthor, now)) :
                 proc' = [proc EXCEPT ![p] =
                   IF exactMatch # NoRow THEN AfterFind(me, exactMatch, now)
                   ELSE [me EXCEPT !.pc = "fc_partial"]]
      /\ UNCHANGED <<store, nextId, now, limiter, ops>>

\* findInCache: the partial query
FcPartial(p) ==
  LET me == proc[p]
  IN  /\ me.pc = "fc_partial"
      /\ \/ /\ Fault
            /\ proc' = [proc EXCEPT ![p] = AfterFind(me, NoRow, now)]
         \/ /\ UNCHANGED faults
            /\ \E partialMatch \in firstOf(partialMatches(store, me.fcTitle, me.fcAuthor, now)) :
                 proc' = [proc EXCEPT ![p] = AfterFind(me, partialMatch, now)]
      /\ UNCHANGED <<store, nextId, now, limiter, ops>>

\* cacheBook: the update of the row findInCache found, else the insert
CbWrite(p) ==
  LET me == proc[p]
  IN  /\ me.pc = "cb_write"
      /\ \/ /\ Fault
            /\ proc' = [proc EXCEPT ![p] = Caught([me EXCEPT !.writeFailed = TRUE])]
            /\ UNCHANGED <<store, nextId>>
         \/ /\ UNCHANGED faults
            /\ me.found # NoRow
            /\ store' = update(store, me.found.id,
                 cacheBookValues(me.found, me.bookData, me.source, me.expiresAt))
            /\ proc' = [proc EXCEPT ![p] =
                 Returned([me EXCEPT !.writes = @ + 1], rowOfId(store', me.found.id))]
            /\ UNCHANGED nextId
         \/ /\ UNCHANGED faults
            /\ me.found = NoRow
            /\ LET inserted == insertedRow(nextId, me.bookData, me.source, me.expiresAt)
               IN  /\ store' = store \cup {inserted}
                   /\ proc' = [proc EXCEPT ![p] =
                        Returned([me EXCEPT !.writes = @ + 1], inserted)]
            /\ nextId' = nextId + 1
      /\ UNCHANGED <<now, limiter, ops>>

----------------------------------------------------------------------------
(* getEnhancedRating *)

BeginRating(p, title, author, isbn, configured) ==
  /\ Free(p) /\ ops < MaxOps
  /\ ops' = ops + 1
  /\ proc' = [proc EXCEPT ![p] =
       CallFindInCache(
         [Fresh("rating") EXCEPT !.title = title, !.author = author,
                                 !.isbn = isbn, !.configured = configured],
         title, author, "r_cached")]
  /\ UNCHANGED <<store, nextId, now, limiter, faults>>

\* findByISBN; a failure is logged and nothing is found
RatingISBN(p) ==
  LET me == proc[p]
  IN  /\ me.pc = "r_isbn"
      /\ \/ /\ Fault
            /\ Len(me.isbn) >= 10
            /\ proc' = [proc EXCEPT ![p] = ratingAfterISBN(me, NoRow)]
         \/ /\ UNCHANGED faults
            /\ \E isbnBook \in findByISBN(store, me.isbn, now) :
                 proc' = [proc EXCEPT ![p] = ratingAfterISBN(me, isbnBook)]
      /\ UNCHANGED <<store, nextId, now, limiter, ops>>

\* a getEnhancedRating that asks the rate limiter and calls the provider
\* whatever the answer
RatingLimitIgnored(p) ==
  LET me  == proc[p]
      res == checkAndIncrement(limiter, "openai")
  IN  /\ me.pc = "r_limit"
      /\ limiter' = res.lim
      /\ proc' = [proc EXCEPT ![p] =
           [me EXCEPT !.pc = "r_call", !.checks = @ + 1,
                      !.permit = IF res.ok THEN "granted" ELSE "refused"]]
      /\ UNCHANGED <<store, nextId, now, faults, ops>>

\* rateLimiter.checkAndIncrement('openai'); the estimate when it refuses
RatingLimit(p) ==
  LET me  == proc[p]
      res == checkAndIncrement(limiter, "openai")
      at  == [me EXCEPT !.checks = @ + 1,
                        !.permit = IF res.ok THEN "granted" ELSE "refused"]
  IN  /\ me.pc = "r_limit"
      /\ limiter' = res.lim
      /\ proc' = [proc EXCEPT ![p] =
           IF res.ok THEN [at EXCEPT !.pc = "r_call"]
           ELSE [at EXCEPT !.pc = "done",
                           !.result = getEstimatedBookRating(me.title, me.author)]]
      /\ UNCHANGED <<store, nextId, now, faults, ops>>

\* the request to the generative provider, answered by one of texts or failing
RatingCall(p, texts) ==
  LET me == proc[p]
      at == [me EXCEPT !.calls = @ + 1]
  IN  /\ me.pc = "r_call"
      /\ \/ /\ Fault
            /\ proc' = [proc EXCEPT ![p] = Caught([at EXCEPT !.providerFailed = TRUE])]
         \/ /\ UNCHANGED faults
            /\ \E content \in texts :
                 LET x == extractRating(content, me.title, me.author)
                 IN  proc' = [proc EXCEPT ![p] =
                       CallFindInCache(
                         [at EXCEPT !.ratingText = x.ratingText, !.rating = x.rating,
                                    !.isOpenAIRating = x.isOpenAIRating],
                         me.title, me.author, "r_existing")]
      /\ UNCHANGED <<store, nextId, now, limiter, ops>>

\* the direct update of the row the second findInCache found
RatingUpdate(p) ==
  LET me == proc[p]
  IN  /\ me.pc = "r_update"
      /\ \/ /\ Fault
            /\ proc' = [proc EXCEPT ![p] = Caught([me EXCEPT !.writeFailed = TRUE])]
            /\ UNCHANGED store
         \/ /\ UNCHANGED faults
            /\ store' = update(store, me.found.id,
                 ratingValues(me.found, me.rating, me.isOpenAIRating, me.isbn, me.expiresAt))
            /\ proc' = [proc EXCEPT ![p] =
                 IF rowOfId(store', me.found.id) = NoRow
                 THEN Caught([me EXCEPT !.writes = @ + 1])
                 ELSE [me EXCEPT !.pc = "done", !.writes = @ + 1, !.result = me.rating]]
      /\ UNCHANGED <<nextId, now, limiter, ops>>

----------------------------------------------------------------------------
(* getEnhancedSummary *)

BeginSummary(p, title, author, existingSummary, configured) ==
  /\ Free(p) /\ ops < MaxOps
  /\ ops' = ops + 1
  /\ LET at == [Fresh("summary") EXCEPT
                  !.title = title, !.author = author,
                  !.existingSummary = existingSummary, !.configured = configured]
     IN  proc' = [proc EXCEPT ![p] =
           IF ~configured
           THEN [at EXCEPT !.pc = "done", !.result = OrElse(existingSummary, Null)]
           ELSE CallFindInCache(at, title, author, "s_cached")]
  /\ UNCHANGED <<store, nextId, now, limiter, faults>>

\* rateLimiter.checkAndIncrement('openai'); the given summary when it refuses
SummaryLimit(p) ==
  LET me  == proc[p]
      res == checkAndIncrement(limiter, "openai")
      at  == [me EXCEPT !.checks = @ + 1,
                        !.permit = IF res.ok THEN "granted" ELSE "refused"]
  IN  /\ me.pc = "s_limit"
      /\ limiter' = res.lim
      /\ proc' = [proc EXCEPT ![p] =
           IF res.ok THEN [at EXCEPT !.pc = "s_call"]
           ELSE [at EXCEPT !.pc = "done",
                           !.result = OrElse(me.existingSummary, Null)]]
      /\ UNCHANGED <<store, nextId, now, faults, ops>>

\* the request to the generative provider, answered by one of texts or failing
SummaryCall(p, texts) ==
  LET me == proc[p]
      at == [me EXCEPT !.calls = @ + 1]
  IN  /\ me.pc = "s_call"
      /\ \/ /\ Fault
            /\ proc' = [proc EXCEPT ![p] = Caught([at EXCEPT !.providerFailed = TRUE])]
         \/ /\ UNCHANGED faults
            /\ \E content \in texts :
                 LET summary == IF content = Null THEN Null ELSE OrElse(trim(content), Null)
                 IN  proc' = [proc EXCEPT ![p] =
                       IF Truthy(summary)
                       THEN CallFindInCache(
                              [at EXCEPT !.summary = summary,
                                         !.expiresAt = now + 120 * Day],
                              me.title, me.author, "s_existing")
                       ELSE [at EXCEPT !.pc = "done", !.result = Null]]
      /\ UNCHANGED <<store, nextId, now, limiter, ops>>

\* the direct update of the row the second findInCache found
SummaryUpdate(p) ==
  LET me == proc[p]
  IN  /\ me.pc = "s_update"
      /\ \/ /\ Fault
            /\ proc' = [proc EXCEPT ![p] = Caught([me EXCEPT !.writeFailed = TRUE])]
            /\ UNCHANGED store
         \/ /\ UNCHANGED faults
            /\ store' = update(store, me.found.id, summaryValues(me.summary, me.expiresAt))
            /\ proc' = [proc EXCEPT ![p] =
                 IF rowOfId(store', me.found.id) = NoRow
                 THEN Caught([me EXCEPT !.writes = @ + 1])
                 ELSE [me EXCEPT !.pc = "done", !.writes = @ + 1, !.result = me.summary]]
      /\ UNCHANGED <<nextId, now, limiter, ops>>

----------------------------------------------------------------------------
(* Maintenance *)

\* a sweep that spares the rows that expire at t itself
expiredBefore(st, t) == {r \in st : r.expiresAt < t}

\* rows DELETE ... WHERE expiresAt <= t removes
expired(st, t) == {r \in st : r.expiresAt <= t}

\* cleanupExpired, and runMaintenance which only calls it
CleanupExpired(p) ==
  /\ Free(p) /\ ops < MaxOps
  /\ ops' = ops + 1
  /\ \/ /\ Fault
        /\ proc' = [proc EXCEPT ![p] = [Fresh("sweep") EXCEPT !.pc = "done", !.count = 0]]
        /\ UNCHANGED store
     \/ /\ UNCHANGED faults
        /\ store' = store \ expired(store, now)
        /\ proc' = [proc EXCEPT ![p] =
             [Fresh("sweep") EXCEPT !.pc = "done",
                                    !.count = Cardinality(expired(store, now))]]
  /\ UNCHANGED <<nextId, now, limiter>>

\* a selection that a comparison with an absent source lets slip: the rows
\* without a source are not selected
nonOpenAIRatedWithSource(st) ==
  {r \in st : r.rating # Null /\ r.source # "openai" /\ r.source # NoSource}

\* a selection of every rated row, whatever its source
everyRated(st) == {r \in st : r.rating # Null}

\* rows cleanupNonOpenAIRatings selects
nonOpenAIRated(st) ==
  {r \in st : r.rating # Null /\ (r.source # "openai" \/ r.source = NoSource)}

\* cleanupNonOpenAIRatings: the ratings of the selected rows are reset one
\* by one; a failure stops the loop and 0 is returned
CleanupNonOpenAIRatings(p) ==
  LET entries == nonOpenAIRated(store)
      reset(rows) == {IF r \in rows THEN [r EXCEPT !.rating = Null] ELSE r : r \in store}
  IN  /\ Free(p) /\ ops < MaxOps
      /\ ops' = ops + 1
      /\ \/ /\ Fault
            /\ \E some \in SUBSET entries :
                 /\ some # entries \/ entries = {}
                 /\ store' = reset(some)
            /\ proc' = [proc EXCEPT ![p] = [Fresh("purge") EXCEPT !.pc = "done", !.count = 0]]
         \/ /\ UNCHANGED faults
            /\ store' = reset(entries)
            /\ proc' = [proc EXCEPT ![p] =
                 [Fresh("purge") EXCEPT !.pc = "done", !.count = Cardinality(entries)]]
      /\ UNCHANGED <<nextId, now, limiter>>

\* a selection that takes no notice of the title filter
filteredAll(st, titleFilter) == st

\* rows clearCacheForTesting selects
filtered(st, titleFilter) ==
  IF Truthy(titleFilter)
  THEN {r \in st : includes(toLowerCase(r.title), toLowerCase(titleFilter))}
  ELSE st

\* clearCacheForTesting: the selected rows expire a minute ago, and lose
\* their summary unless descriptions are preserved; with neither a filter
\* nor preservation, every row is deleted
ClearCacheForTesting(p, preserveDescriptions, titleFilter) ==
  LET entries == filtered(store, titleFilter)
      expiry  == now - 1
      touch(rows) ==
        {IF r \in rows
         THEN IF preserveDescriptions THEN [r EXCEPT !.expiresAt = expiry]
              ELSE [r EXCEPT !.expiresAt = expiry, !.summary = Null]
         ELSE r : r \in store}
      at == [Fresh("reset") EXCEPT !.pc = "done"]
  IN  /\ Free(p) /\ ops < MaxOps
      /\ ops' = ops + 1
      /\ \/ /\ Fault
            /\ IF preserveDescriptions \/ Truthy(titleFilter)
               THEN \E some \in SUBSET entries :
                      /\ some # entries \/ entries = {}
                      /\ store' = touch(some)
               ELSE UNCHANGED store
            /\ proc' = [proc EXCEPT ![p] = [at EXCEPT !.count = 0]]
         \/ /\ UNCHANGED faults
            /\ IF preserveDescriptions \/ Truthy(titleFilter)
               THEN store' = touch(entries)
               ELSE store' = {}
            /\ proc' = [proc EXCEPT ![p] =
                 [at EXCEPT !.count =
                    IF preserveDescriptions \/ Truthy(titleFilter)
                    THEN Cardinality(entries) ELSE Cardinality(store)]]
      /\ UNCHANGED <<nextId, now, limiter>>

\* the clock advances, between invocations
Tick(d) ==
  /\ \A p \in Procs : Free(p)
  /\ now < Day + MaxTicks * d
  /\ now' = now + d
  /\ UNCHANGED <<store, nextId, limiter, faults, ops, proc>>

----------------------------------------------------------------------------
(* server/books.ts: the table of known ratings *)

popularBooks ==
  <<
    [title |-> <<"a", "t", "o", "m", "i", "c", " ", "h", "a", "b", "i", "t", "s">>,
     author |-> <<"j", "a", "m", "e", "s", " ", "c", "l", "e", "a", "r">>,
     rating |-> <<"4", ".", "8">>],
    [title |-> <<"t", "h", "e", " ", "c", "r", "e", "a", "t", "i", "v", "e", " ", "a", "c", "t">>,
     author |-> <<"r", "i", "c", "k", " ", "r", "u", "b", "i", "n">>,
     rating |-> <<"4", ".", "8">>],
    [title |-> <<"a", "m", "e", "r", "i", "c", "a", "n", " ", "g", "o", "d", "s">>,
     author |-> <<"n", "e", "i", "l", " ", "g", "a", "i", "m", "a", "n">>,
     rating |-> <<"4", ".", "6">>],
    [title |-> <<"t", "h", "e", " ", "p", "s", "y", "c", "h", "o", "l", "o", "g", "y", " ", "o", "f", " ", "m", "o", "n", "e", "y">>,
     author |-> <<"m", "o", "r", "g", "a", "n", " ", "h", "o", "u", "s", "e", "l">>,
     rating |-> <<"4", ".", "7">>],
    [title |-> <<"s", "t", "u", "m", "b", "l", "i", "n", "g", " ", "o", "n", " ", "h", "a", "p", "p", "i", "n", "e", "s", "s">>,
     author |-> <<"d", "a", "n", "i", "e", "l", " ", "g", "i", "l", "b", "e", "r", "t">>,
     rating |-> <<"4", ".", "3">>],
    [title |-> <<"t", "h", "i", "s", " ", "i", "s", " ", "h", "o", "w", " ", "y", "o", "u", " ", "l", "o", "s", "e", " ", "t", "h", "e", " ", "t", "i", "m", "e", " ", "w", "a", "r">>,
     author |-> <<"a", "m", "a", "l", " ", "e", "l", "-", "m", "o", "h", "t", "a", "r">>,
     rating |-> <<"4", ".", "5">>],
    [title |-> <<"t", "h", "i", "s", " ", "i", "s", " ", "h", "o", "w", " ", "y", "o", "u", " ", "l", "o", "s", "e", " ", "t", "h", "e", " ", "t", "i", "m", "e", " ", "w", "a", "r">>,
     author |-> <<"m", "a", "x", " ", "g", "l", "a", "d", "s", "t", "o", "n", "e">>,
     rating |-> <<"4", ".", "5">>],
    [title |-> <<"t", "h", "e", " ", "b", "o", "o", "k", " ", "o", "f", " ", "f", "i", "v", "e", " ", "r", "i", "n", "g", "s">>,
     author |-> <<"m", "i", "y", "a", "m", "o", "t", "o", " ", "m", "u", "s", "a", "s", "h", "i">>,
     rating |-> <<"4", ".", "7">>],
    [title |-> <<"e", "c", "o", "n", "o", "m", "i", "c", "s", " ", "f", "o", "r", " ", "e", "v", "e", "r", "y", "o", "n", "e">>,
     author |-> <<"j", "i", "m", " ", "s", "t", "a", "n", "f", "o", "r", "d">>,
     rating |-> <<"4", ".", "5">>],
    [title |-> <<"a", "p", "o", "c", "a", "l", "y", "p", "s", "e", " ", "n", "e", "v", "e", "r">>,
     author |-> <<"m", "i", "c", "h", "a", "e", "l", " ", "s", "h", "e", "l", "l", "e", "n", "b", "e", "r", "g", "e", "r">>,
     rating |-> <<"4", ".", "7">>],
    [title |-> <<"e", "c", "o", "n", "o", "m", "i", "c", " ", "f", "a", "c", "t", "s", " ", "a", "n", "d", " ", "f", "a", "l", "l", "a", "c", "i", "e", "s">>,
     author |-> <<"t", "h", "o", "m", "a", "s", " ", "s", "o", "w", "e", "l", "l">>,
     rating |-> <<"4", ".", "8">>],
    [title |-> <<"t", "h", "i", "n", "k", "i", "n", "g", ",", " ", "f", "a", "s", "t", " ", "a", "n", "d", " ", "s", "l", "o", "w">>,
     author |-> <<"d", "a", "n", "i", "e", "l", " ", "k", "a", "h", "n", "e", "m", "a", "n">>,
     rating |-> <<"4", ".", "6">>],
    [title |-> <<"s", "a", "p", "i", "e", "n", "s">>,
     author |-> <<"y", "u", "v", "a", "l", " ", "n", "o", "a", "h", " ", "h", "a", "r", "a", "r", "i">>,
     rating |-> <<"4", ".", "7">>],
    [title |-> <<"e", "d", "u", "c", "a", "t", "e", "d">>,
     author |-> <<"t", "a", "r", "a", " ", "w", "e", "s", "t", "o", "v", "e", "r">>,
     rating |-> <<"4", ".", "7">>],
    [title |-> <<"b", "e", "c", "o", "m", "i", "n", "g">>,
     author |-> <<"m", "i", "c", "h", "e", "l", "l", "e", " ", "o", "b", "a", "m", "a">>,
     rating |-> <<"4", ".", "8">>],
    [title |-> <<"t", "h", "e", " ", "s", "i", "l", "e", "n", "t", " ", "p", "a", "t", "i", "e", "n", "t">>,
     author |-> <<"a", "l", "e", "x", " ", "m", "i", "c", "h", "a", "e", "l", "i", "d", "e", "s">>,
     rating |-> <<"4", ".", "5">>],
    [title |-> <<"w", "h", "e", "r", "e", " ", "t", "h", "e", " ", "c", "r", "a", "w", "d", "a", "d", "s", " ", "s", "i", "n", "g">>,
     author |-> <<"d", "e", "l", "i", "a", " ", "o", "w", "e", "n", "s">>,
     rating |-> <<"4", ".", "8">>],
    [title |-> <<"d", "u", "n", "e">>,
     author |-> <<"f", "r", "a", "n", "k", " ", "h", "e", "r", "b", "e", "r", "t">>,
     rating |-> <<"4", ".", "7">>],
    [title |-> <<"p", "r", "o", "j", "e", "c", "t", " ", "h", "a", "i", "l", " ", "m", "a", "r", "y">>,
     author |-> <<"a", "n", "d", "y", " ", "w", "e", "i", "r">>,
     rating |-> <<"4", ".", "8">>],
    [title |-> <<"t", "h", "e", " ", "m", "a", "r", "t", "i", "a", "n">>,
     author |-> <<"a", "n", "d", "y", " ", "w", "e", "i", "r">>,
     rating |-> <<"4", ".", "7">>],
    [title |-> <<"t", "h", "e", " ", "m", "i", "d", "n", "i", "g", "h", "t", " ", "l", "i", "b", "r", "a", "r", "y">>,
     author |-> <<"m", "a", "t", "t", " ", "h", "a", "i", "g">>,
     rating |-> <<"4", ".", "3">>],
    [title |-> <<"1", "9", "8", "4">>,
     author |-> <<"g", "e", "o", "r", "g", "e", " ", "o", "r", "w", "e", "l", "l">>,
     rating |-> <<"4", ".", "7">>],
    [title |-> <<"t", "o", " ", "k", "i", "l", "l", " ", "a", " ", "m", "o", "c", "k", "i", "n", "g", "b", "i", "r", "d">>,
     author |-> <<"h", "a", "r", "p", "e", "r", " ", "l", "e", "e">>,
     rating |-> <<"4", ".", "8">>],
    [title |-> <<"t", "h", "e", " ", "g", "r", "e", "a", "t", " ", "g", "a", "t", "s", "b", "y">>,
     author |-> <<"f", ".", " ", "s", "c", "o", "t", "t", " ", "f", "i", "t", "z", "g", "e", "r", "a", "l", "d">>,
     rating |-> <<"4", ".", "5">>],
    [title |-> <<"p", "r", "i", "d", "e", " ", "a", "n", "d", " ", "p", "r", "e", "j", "u", "d", "i", "c", "e">>,
     author |-> <<"j", "a", "n", "e", " ", "a", "u", "s", "t", "e", "n">>,
     rating |-> <<"4", ".", "7">>],
    [title |-> <<"t", "h", "e", " ", "a", "l", "c", "h", "e", "m", "i", "s", "t">>,
     author |-> <<"p", "a", "u", "l", "o", " ", "c", "o", "e", "l", "h", "o">>,
     rating |-> <<"4", ".", "7">>],
    [title |-> <<"t", "h", "e", " ", "f", "o", "u", "r", " ", "a", "g", "r", "e", "e", "m", "e", "n", "t", "s">>,
     author |-> <<"d", "o", "n", " ", "m", "i", "g", "u", "e", "l", " ", "r", "u", "i", "z">>,
     rating |-> <<"4", ".", "7">>],
    [title |-> <<"t", "h", "e", " ", "p", "o", "w", "e", "r", " ", "o", "f", " ", "n", "o", "w">>,
     author |-> <<"e", "c", "k", "h", "a", "r", "t", " ", "t", "o", "l", "l", "e">>,
     rating |-> <<"4", ".", "7">>],
    [title |-> <<"m", "a", "n", "'", "s", " ", "s", "e", "a", "r", "c", "h", " ", "f", "o", "r", " ", "m", "e", "a", "n", "i", "n", "g">>,
     author |-> <<"v", "i", "k", "t", "o", "r", " ", "e", ".", " ", "f", "r", "a", "n", "k", "l">>,
     rating |-> <<"4", ".", "7">>],
    [title |-> <<"a", " ", "b", "r", "i", "e", "f", " ", "h", "i", "s", "t", "o", "r", "y", " ", "o", "f", " ", "t", "i", "m", "e">>,
     author |-> <<"s", "t", "e", "p", "h", "e", "n", " ", "h", "a", "w", "k", "i", "n", "g">>,
     rating |-> <<"4", ".", "7">>]
  >>

\* getPopularBookRating: the rating of the first book of the table that the
\* title and author match, exactly or by containment either way
getPopularBookRating(title, author) ==
  LET normalizedTitle  == trim(toLowerCase(title))
      normalizedAuthor == trim(toLowerCase(author))
      matches(book) ==
        \/ /\ normalizedTitle = book.title
           /\ includes(normalizedAuthor, book.author)
        \/ /\ \/ includes(normalizedTitle, book.title)
              \/ includes(book.title, normalizedTitle)
           /\ \/ includes(normalizedAuthor, book.author)
              \/ includes(book.author, normalizedAuthor)
      hits == {i \in 1..Len(popularBooks) : matches(popularBooks[i])}
  IN  IF hits = {} THEN Null
      ELSE popularBooks[CHOOSE i \in hits : \A j \in hits : i <= j].rating

----------------------------------------------------------------------------
(* server/books.ts: searchBooksByTitle *)

UnknownTitle  == <<"U", "n", "k", "n", "o", "w", "n", " ", "T", "i", "t", "l", "e">>
UnknownAuthor == <<"U", "n", "k", "n", "o", "w", "n", " ", "A", "u", "t", "h", "o", "r">>

\* Array.prototype.join(', ')
join(names) ==
  LET RECURSIVE from(_)
      from(i) == IF i > Len(names) THEN <<>>
                 ELSE IF i = 1 THEN names[1] \o from(2)
                 ELSE <<",", " ">> \o names[i] \o from(i + 1)
  IN  from(1)

\* a volume of Google Books: title, authors, description, thumbnail, the
\* ISBN_13 identifier and averageRating (as its toString), each optional
NoVolume ==
  [title |-> Null, authors |-> <<>>, description |-> Null, thumbnail |-> Null,
   isbn13 |-> Null, averageRating |-> Null]

\* a doc of Open Library: title, author_name, isbn, the cover URL of cover_i
NoDoc ==
  [title |-> Null, author_name |-> <<>>, isbn |-> <<>>, cover |-> Null]

\* the book a Google Books volume is mapped to, its rating cleared
googleBook(item, title) ==
  [title        |-> OrElse(item.title, UnknownTitle),
   author       |-> IF item.authors # <<>> THEN join(item.authors) ELSE UnknownAuthor,
   isbn         |-> OrElse(item.isbn13, <<>>),
   coverUrl     |-> OrElse(item.thumbnail, <<>>),
   summary      |-> OrElse(item.description, <<>>),
   rating       |-> <<>>,
   detectedFrom |-> title]

\* the book an Open Library doc is mapped to, its rating and summary cleared
openLibraryBook(doc, title) ==
  [title        |-> OrElse(doc.title, UnknownTitle),
   author       |-> IF doc.author_name # <<>> THEN join(doc.author_name) ELSE UnknownAuthor,
   isbn         |-> IF doc.isbn # <<>> THEN doc.isbn[1] ELSE <<>>,
   coverUrl     |-> OrElse(doc.cover, <<>>),
   summary      |-> <<>>,
   rating       |-> <<>>,
   detectedFrom |-> title]

\* what Google Books answers: no items, or these volumes
GoogleAnswers ==
  {<<>>,
   <<[NoVolume EXCEPT !.title = Dune, !.authors = <<FrankHerbert>>,
                      !.description = ASaga, !.isbn13 = Isbn13,
                      !.averageRating = <<"4">>],
     [NoVolume EXCEPT !.authors = <<FrankHerbert, Herbert>>,
                      !.thumbnail = <<"thumb1">>]>>}

\* what Open Library answers: no docs, or these docs
OpenLibraryAnswers ==
  {<<>>,
   <<[NoDoc EXCEPT !.title = DuneMessiah, !.author_name = <<FrankHerbert>>,
                   !.isbn = <<Isbn13>>, !.cover = <<"cover1">>],
     NoDoc>>}

\* the titles searchBooksByTitle is called with
SearchInputs == {Dune, <<" ", "D", " ">>}

BeginSearch(p, title) ==
  /\ Free(p) /\ ops < MaxOps
  /\ ops' = ops + 1
  /\ LET at == [Fresh("search") EXCEPT !.title = title]
     IN  proc' = [proc EXCEPT ![p] =
           IF ~Truthy(title) \/ Len(trim(title)) < 2
           THEN [at EXCEPT !.pc = "done", !.books = <<>>]
           ELSE [at EXCEPT !.pc = "g_limit"]]
  /\ UNCHANGED <<store, nextId, now, limiter, faults>>

\* rateLimiter.checkAndIncrement('google-books'); no books when it refuses
SearchLimit(p) ==
  LET me  == proc[p]
      res == checkAndIncrement(limiter, "google-books")
      at  == [me EXCEPT !.checks = @ + 1,
                        !.permit = IF res.ok THEN "granted" ELSE "refused"]
  IN  /\ me.pc = "g_limit"
      /\ limiter' = res.lim
      /\ proc' = [proc EXCEPT ![p] =
           IF res.ok THEN [at EXCEPT !.pc = "g_call"]
           ELSE [at EXCEPT !.pc = "done", !.books = <<>>]]
      /\ UNCHANGED <<store, nextId, now, faults, ops>>

\* the request to Google Books, answered by one of answers or failing
SearchGoogle(p, answers) ==
  LET me == proc[p]
      at == [me EXCEPT !.calls = @ + 1]
  IN  /\ me.pc = "g_call"
      /\ \/ /\ Fault
            /\ proc' = [proc EXCEPT ![p] = Caught([at EXCEPT !.providerFailed = TRUE])]
         \/ /\ UNCHANGED faults
            /\ \E items \in answers :
                 proc' = [proc EXCEPT ![p] =
                   IF Len(items) > 0
                   THEN [at EXCEPT !.pc = "done",
                                   !.books = [i \in 1..Len(items) |->
                                                googleBook(items[i], me.title)]]
                   ELSE [at EXCEPT !.pc = "ol_limit"]]
      /\ UNCHANGED <<store, nextId, now, limiter, ops>>

\* a fallback that asks the limiter and goes on to Open Library whatever
\* the answer
SearchFallbackLimitIgnored(p) ==
  LET me  == proc[p]
      res == checkAndIncrement(limiter, "open-library")
  IN  /\ me.pc = "ol_limit"
      /\ limiter' = res.lim
      /\ proc' = [proc EXCEPT ![p] =
           [me EXCEPT !.pc = "ol_call", !.checks = @ + 1,
                      !.permit = IF res.ok THEN "granted" ELSE "refused"]]
      /\ UNCHANGED <<store, nextId, now, faults, ops>>

\* rateLimiter.checkAndIncrement('open-library'); no books when it refuses
SearchFallbackLimit(p) ==
  LET me  == proc[p]
      res == checkAndIncrement(limiter, "open-library")
      at  == [me EXCEPT !.checks = @ + 1,
                        !.permit = IF res.ok THEN "granted" ELSE "refused"]
  IN  /\ me.pc = "ol_limit"
      /\ limiter' = res.lim
      /\ proc' = [proc EXCEPT ![p] =
           IF res.ok THEN [at EXCEPT !.pc = "ol_call"]
           ELSE [at EXCEPT !.pc = "done", !.books = <<>>]]
      /\ UNCHANGED <<store, nextId, now, faults, ops>>

\* the request to Open Library, answered by one of answers or failing
SearchOpenLibrary(p, answers) ==
  LET me == proc[p]
      at == [me EXCEPT !.calls = @ + 1]
  IN  /\ me.pc = "ol_call"
      /\ \/ /\ Fault
            /\ proc' = [proc EXCEPT ![p] = Caught([at EXCEPT !.providerFailed = TRUE])]
         \/ /\ UNCHANGED faults
            /\ \E docs \in answers :
                 proc' = [proc EXCEPT ![p] =
                   [at EXCEPT !.pc = "done",
                              !.books = [i \in 1..Len(docs) |->
                                           openLibraryBook(docs[i], me.title)]]]
      /\ UNCHANGED <<store, nextId, now, limiter, ops>>


-----------------------------------------------------------------------------
(* server/books.ts: getRecommendations *)

\* \w of a regular expression, on lower-cased characters
WordChars ==
  {"a", "b", "c", "d", "e", "f", "g", "h", "i", "j", "k", "l", "m", "n", "o",
   "p", "q", "r", "s", "t", "u", "v", "w", "x", "y", "z", "_"} \cup Digits

\* replace(/\s+/g, ' '): every run of white space becomes one blank
RECURSIVE collapseSpaces(_)
collapseSpaces(s) ==
  IF s = <<>> THEN <<>>
  ELSE IF IsSpace(s[1])
       THEN IF Len(s) > 1 /\ IsSpace(s[2]) THEN collapseSpaces(Tail(s))
            ELSE <<" ">> \o collapseSpaces(Tail(s))
       ELSE <<s[1]>> \o collapseSpaces(Tail(s))

\* normalizeBookTitle: lower case, punctuation removed, white space
\* normalized, trimmed
normalizeBookTitle(title) ==
  LET isKept(c) == c \in WordChars \/ IsSpace(c)
  IN  trim(collapseSpaces(SelectSeq(toLowerCase(title), isKept)))

\* parseInt: leading white space, an optional sign, digits; NaN when no
\* digit starts the string. The value is held in units.
parseInt(str) ==
  LET lead == {i \in 1..Len(str) : ~IsSpace(str[i])}
      s    == IF lead = {} THEN <<>>
              ELSE SubSeq(str, CHOOSE i \in lead : \A j \in lead : i <= j, Len(str))
      neg  == Len(s) > 0 /\ s[1] = "-"
      b    == IF Len(s) > 0 /\ s[1] \in {"-", "+"} THEN 2 ELSE 1
      n    == DigitRun(s, b)
      abs  == DigitsValue(SubSeq(s, b, b + n - 1))
  IN  IF n = 0 THEN NaN
      ELSE IF neg THEN Num(0 - abs) ELSE Num(abs)

\* a candidate book without any of its fields
NoBook ==
  [title |-> Null, author |-> Null, isbn |-> Null, coverUrl |-> Null,
   summary |-> Null, rating |-> Null, categories |-> <<>>]

\* an entry of the Goodreads data without any of its fields
NoEntry == [Title |-> Null, Author |-> Null, MyRating |-> Null]

\* the entry counts as a book the user has read
countsAsRead(entry) ==
  /\ Truthy(entry.Title)
  /\ Truthy(entry.MyRating)
  /\ ~parseInt(entry.MyRating).nan
  /\ parseInt(entry.MyRating).v > 0

\* alreadyReadBooks: the entries with a title and a rating above 0, in the
\* order of the Goodreads data
alreadyReadBooks(goodreadsData) ==
  LET RECURSIVE from(_)
      from(i) ==
        IF i > Len(goodreadsData) THEN <<>>
        ELSE IF countsAsRead(goodreadsData[i])
             THEN <<[normalizedTitle |-> normalizeBookTitle(goodreadsData[i].Title),
                     originalTitle   |-> goodreadsData[i].Title]>> \o from(i + 1)
             ELSE from(i + 1)
  IN  from(1)

\* alreadyReadBooks.find(...): the index of the first read book whose
\* normalized title contains the book's or is contained in it, 0 when none
matchingTitle(book, readBooks) ==
  LET normalizedBookTitle == normalizeBookTitle(book.title)
      hits == {i \in 1..Len(readBooks) :
                 \/ includes(normalizedBookTitle, readBooks[i].normalizedTitle)
                 \/ includes(readBooks[i].normalizedTitle, normalizedBookTitle)}
  IN  IF hits = {} THEN 0 ELSE CHOOSE i \in hits : \A j \in hits : i <= j

\* the books that score points for a preferred genre by their title alone:
\* what the title contains, the genres one of which must be preferred, the
\* points
titleBonuses ==
  <<[needle |-> <<"s", "t", "r", "a", "n", "g", "e", "r", " ", "i", "n", " ", "a", " ", "s", "t", "r", "a", "n", "g", "e", " ", "l", "a", "n", "d">>, genres |-> {<<"S", "c", "i", "e", "n", "c", "e", " ", "F", "i", "c", "t", "i", "o", "n">>}, points |-> 12],
    [needle |-> <<"l", "e", "v", "i", "a", "t", "h", "a", "n", " ", "w", "a", "k", "e", "s">>,            genres |-> {<<"S", "c", "i", "e", "n", "c", "e", " ", "F", "i", "c", "t", "i", "o", "n">>}, points |-> 15],
    [needle |-> <<"c", "o", "g", "n", "i", "t", "i", "v", "e", " ", "b", "e", "h", "a", "v", "i", "o", "r", "a", "l">>,       genres |-> {<<"S", "e", "l", "f", "-", "H", "e", "l", "p">>, <<"N", "o", "n", "-", "F", "i", "c", "t", "i", "o", "n">>}, points |-> 14],
    [needle |-> <<"o", "v", "e", "r", "d", "i", "a", "g", "n", "o", "s", "e", "d">>,              genres |-> {<<"N", "o", "n", "-", "F", "i", "c", "t", "i", "o", "n">>}, points |-> 13],
    [needle |-> <<"m", "y", "t", "h", "o", "s">>,                     genres |-> {<<"N", "o", "n", "-", "F", "i", "c", "t", "i", "o", "n">>}, points |-> 9],
    [needle |-> <<"a", "w", "e">>,                        genres |-> {<<"S", "e", "l", "f", "-", "H", "e", "l", "p">>}, points |-> 11]>>

\* the points scoreBook adds to the rating of a book
bonusPoints(book, preferences) ==
  LET preferredGenres == preferences.genres
      genrePairs ==
        {<<c, g>> \in (1..Len(book.categories)) \X (1..Len(preferredGenres)) :
           /\ Truthy(book.categories[c])
           /\ includes(toLowerCase(book.categories[c]), toLowerCase(preferredGenres[g]))}
      preferred(genre) == \E g \in 1..Len(preferredGenres) : preferredGenres[g] = genre
      titleHits ==
        {k \in 1..Len(titleBonuses) :
           /\ includes(toLowerCase(book.title), titleBonuses[k].needle)
           /\ \E genre \in titleBonuses[k].genres : preferred(genre)}
      RECURSIVE titlePoints(_)
      titlePoints(ks) ==
        IF ks = {} THEN 0
        ELSE LET k == CHOOSE x \in ks : TRUE
             IN  titleBonuses[k].points + titlePoints(ks \ {k})
      authorHits ==
        {i \in 1..Len(preferences.goodreadsData) :
           /\ Truthy(preferences.goodreadsData[i].Author)
           /\ Truthy(book.author)
           /\ includes(toLowerCase(book.author),
                       toLowerCase(preferences.goodreadsData[i].Author))}
      likedHits ==
        {i \in authorHits :
           /\ Truthy(preferences.goodreadsData[i].MyRating)
           /\ ~parseInt(preferences.goodreadsData[i].MyRating).nan
           /\ parseInt(preferences.goodreadsData[i].MyRating).v >= 4}
  IN  10 * Cardinality(genrePairs) + titlePoints(titleHits)
      + 3 * Cardinality(authorHits) + 3 * Cardinality(likedHits)

\* scoreBook: the rating of the book (0 without one) plus the points,
\* Math.max(0, .) of it; in hundredths, NaN when the rating is no number
scoreBook(book, preferences) ==
  LET base  == IF Truthy(book.rating) THEN parseFloat(book.rating) ELSE Num(0)
      total == base.v + 100 * bonusPoints(book, preferences)
  IN  IF base.nan THEN NaN
      ELSE IF total < 0 THEN Num(0) ELSE Num(total)

\* Math.round of a score in hundredths: the nearest integer, halves upwards
mathRound(score) ==
  IF score.nan THEN NaN ELSE Num((score.v + 50) \div 100)

\* the permutations of 1..n
Orders(n) ==
  {f \in [1..n -> 1..n] : \A i, j \in 1..n : i # j => f[i] # f[j]}

\* a sort that puts the first book in every place
sortOrdersRepeating(scores) == {[k \in 1..Len(scores) |-> 1]}

\* Array.prototype.sort((a, b) => b.score - a.score): the orders it may
\* leave the scores in. The sort is stable, so the order is the one by
\* falling score that keeps equal scores as they were; with a NaN among the
\* scores the comparison is not consistent and the order is the engine's
sortOrders(scores) ==
  LET n == Len(scores)
      before(i, j) == \/ scores[i].v > scores[j].v
                      \/ scores[i].v = scores[j].v /\ i < j
  IN  IF \E i \in 1..n : scores[i].nan
      THEN Orders(n)
      ELSE {f \in Orders(n) :
              \A a, b \in 1..n : a < b => before(f[a], f[b])}

\* the rating of a formatted book: its own, else the one of the table
finalRating(book) ==
  IF Truthy(book.rating) THEN book.rating
  ELSE IF Truthy(book.title) /\ Truthy(book.author)
       THEN OrElse(getPopularBookRating(book.title, book.author), <<>>)
       ELSE <<>>

NoSummaryAvailable == <<"N", "o", " ", "s", "u", "m", "m", "a", "r", "y", " ", "a", "v", "a", "i", "l", "a", "b", "l", "e">>

\* a book formatted for display
formatted(book, score, read, originalReadTitle) ==
  [title             |-> OrElse(book.title, UnknownTitle),
   author            |-> OrElse(book.author, UnknownAuthor),
   coverUrl          |-> OrElse(book.coverUrl, <<>>),
   summary           |-> OrElse(book.summary, NoSummaryAvailable),
   rating            |-> finalRating(book),
   matchScore        |-> mathRound(score),
   isbn              |-> book.isbn,
   alreadyRead       |-> read,
   isBookRecommendation |-> ~read,
   isBookYouveRead   |-> read,
   originalReadTitle |-> originalReadTitle]

\* what getRecommendations may return: the new books by falling score, then
\* the books already read by falling score; no book when a candidate has no
\* title, which makes toLowerCase throw. With the list, from: the places its
\* books had in the list of candidates
getRecommendations(books, preferences) ==
  LET readBooks == alreadyReadBooks(preferences.goodreadsData)
      match(i)  == IF Len(readBooks) > 0 THEN matchingTitle(books[i], readBooks) ELSE 0
      pick(test(_)) ==
        LET RECURSIVE from(_)
            from(i) == IF i > Len(books) THEN <<>>
                       ELSE IF test(i) THEN <<i>> \o from(i + 1) ELSE from(i + 1)
        IN  from(1)
      isNew(i)  == match(i) = 0
      isRead(i) == match(i) # 0
      newBooks          == pick(isNew)
      alreadyReadBooks2 == pick(isRead)
      score(i) == scoreBook(books[i], preferences)
      item(i)  == formatted(books[i], score(i), isRead(i),
                            IF isRead(i) THEN readBooks[match(i)].originalTitle ELSE Null)
      sorted(part) ==
        {[k \in 1..Len(part) |-> part[f[k]]] :
           f \in sortOrders([k \in 1..Len(part) |-> score(part[k])])}
  IN  IF \E i \in 1..Len(books) : books[i].title = Null
      THEN {[books |-> <<>>, from |-> <<>>]}
      ELSE {[books |-> [k \in 1..Len(n \o r) |-> item((n \o r)[k])],
             from  |-> n \o r] :
              n \in sorted(newBooks), r \in sorted(alreadyReadBooks2)}

\* getRecommendations is called with books and preferences; its awaits are
\* on functions that do not wait, so it returns in one step
GetRecommendations(p, books, preferences) ==
  /\ Free(p)
  /\ \E out \in getRecommendations(books, preferences) :
       proc' = [proc EXCEPT ![p] =
         [Fresh("recommend") EXCEPT !.pc = "done",
                                    !.candidates = books,
                                    !.preferences = preferences,
                                    !.books = out.books,
                                    !.from = out.from]]
  /\ UNCHANGED <<store, nextId, now, limiter, faults, ops>>
----------------------------------------------------------------------------
(* The cache service, one invocation at a time *)

Init ==
  /\ store = {}
  /\ nextId = 1
  /\ now = Day
  /\ limiter = [p \in Providers |-> 0]
  /\ faults = 0
  /\ ops = 0
  /\ proc = [p \in Procs |-> Idle]

Begin(p) ==
  \/ \E bookData \in BookDataInputs(now) : BeginCacheBook(p, bookData)
  \/ \E in \in RatingInputs, configured \in BOOLEAN :
       BeginRating(p, in[1], in[2], in[3], configured)
  \/ \E in \in SummaryInputs, configured \in BOOLEAN :
       BeginSummary(p, in[1], in[2], in[3], configured)
  \/ CleanupExpired(p)
  \/ CleanupNonOpenAIRatings(p)
  \/ \E in \in ResetInputs : ClearCacheForTesting(p, in[1], in[2])

Step(p) ==
  \/ CbDirect(p)
  \/ CbUpdate(p)
  \/ FcExact(p)
  \/ FcPartial(p)
  \/ CbWrite(p)
  \/ RatingISBN(p)
  \/ RatingLimit(p)
  \/ RatingCall(p, RatingTexts)
  \/ RatingUpdate(p)
  \/ SummaryLimit(p)
  \/ SummaryCall(p, SummaryTexts)
  \/ SummaryUpdate(p)

Next ==
  \/ Begin(1)
  \/ Step(1)
  \/ Tick(CACHE_DURATION_AMAZON)

Spec == Init /\ [][Next]_vars

----------------------------------------------------------------------------
(* Enrichment and search, one invocation at a time, on a store that a few  *)
(* writes have filled                                                      *)

Arrakis == <<"A", "r", "r", "a", "k", "i", "s">>

\* the writes that fill the store
EnrichSeeds ==
  {[NoData EXCEPT !.title = Dune, !.author = FrankHerbert,
                  !.isbn = Isbn13, !.rating = <<"4">>, !.source = "google"],
   [NoData EXCEPT !.title = Dune, !.author = FrankHerbert,
                  !.coverUrl = <<"cover1">>, !.source = "amazon"]}

EnrichRatingInputs ==
  {<<Dune, FrankHerbert, Null>>, <<Arrakis, FrankHerbert, Isbn13>>}

EnrichRatingTexts ==
  {<<"4", ".", "5">>, <<"n", "/", "a">>,
   <<"A", "b", "o", "u", "t", " ", "4", ".", "2", "5", "/", "5">>,
   <<"1", "0">>}

BeginEnrich(p) ==
  \/ \E bookData \in EnrichSeeds : BeginCacheBook(p, bookData)
  \/ \E in \in EnrichRatingInputs, configured \in BOOLEAN :
       BeginRating(p, in[1], in[2], in[3], configured)
  \/ \E in \in SummaryInputs, configured \in BOOLEAN :
       BeginSummary(p, in[1], in[2], in[3], configured)
  \/ \E title \in SearchInputs : BeginSearch(p, title)

StepEnrich(p) ==
  \/ CbDirect(p)
  \/ CbUpdate(p)
  \/ FcExact(p)
  \/ FcPartial(p)
  \/ CbWrite(p)
  \/ RatingISBN(p)
  \/ RatingLimit(p)
  \/ RatingCall(p, EnrichRatingTexts)
  \/ RatingUpdate(p)
  \/ SummaryLimit(p)
  \/ SummaryCall(p, SummaryTexts)
  \/ SummaryUpdate(p)
  \/ SearchLimit(p)
  \/ SearchGoogle(p, GoogleAnswers)
  \/ SearchFallbackLimit(p)
  \/ SearchOpenLibrary(p, OpenLibraryAnswers)

NextEnrich ==
  \/ BeginEnrich(1)
  \/ StepEnrich(1)

SpecEnrich == Init /\ [][NextEnrich]_vars

----------------------------------------------------------------------------
(* cacheBook alone, over longer sequences of writes *)

\* writes started in one behaviour
MaxUpserts == 5

\* the writes cacheBook is called with at time t
UpsertInputs(t) ==
  {[NoData EXCEPT !.title = Dune, !.author = FrankHerbert,
                  !.coverUrl = <<"cover1">>, !.source = "amazon"],
   [NoData EXCEPT !.title = Dune, !.author = Herbert,
                  !.rating = <<"4", ".", "5">>, !.metadata = <<"meta1">>],
   [NoData EXCEPT !.title = DuneMessiah, !.author = FrankHerbert,
                  !.summary = ASaga, !.expiresAt = t + 120 * Day]}

BeginUpsert(p, bookData) ==
  /\ ops < MaxUpserts
  /\ StartCacheBook(p, bookData)

StepUpsert(p) ==
  \/ CbDirect(p)
  \/ CbUpdate(p)
  \/ FcExact(p)
  \/ FcPartial(p)
  \/ CbWrite(p)

NextUpsert ==
  \/ \E bookData \in UpsertInputs(now) : BeginUpsert(1, bookData)
  \/ StepUpsert(1)
  \/ Tick(CACHE_DURATION_AMAZON + Day)

SpecUpsert == Init /\ [][NextUpsert]_vars

----------------------------------------------------------------------------
(* Two invocations at once: their awaits interleave *)

\* the writes cacheBook is called with
ConcInputs ==
  {[NoData EXCEPT !.title = Dune, !.author = FrankHerbert,
                  !.isbn = Isbn13, !.rating = <<"4", ".", "5">>],
   [NoData EXCEPT !.title = DuneSpaced, !.author = FrankHerbert,
                  !.coverUrl = <<"cover1">>, !.source = "amazon"]}

BeginConc(p) ==
  \/ \E bookData \in ConcInputs : BeginCacheBook(p, bookData)
  \/ BeginRating(p, Dune, FrankHerbert, Null, TRUE)
  \/ BeginSummary(p, Dune, FrankHerbert, Null, TRUE)

StepConc(p) ==
  \/ CbDirect(p)
  \/ CbUpdate(p)
  \/ FcExact(p)
  \/ FcPartial(p)
  \/ CbWrite(p)
  \/ RatingLimit(p)
  \/ RatingCall(p, {<<"4", ".", "5">>})
  \/ RatingUpdate(p)
  \/ SummaryLimit(p)
  \/ SummaryCall(p, {ASaga})
  \/ SummaryUpdate(p)

NextConc ==
  \E p \in Procs : BeginConc(p) \/ StepConc(p)

SpecConc == Init /\ [][NextConc]_vars


-----------------------------------------------------------------------------
(* The lookups on their own: findInCache and findByISBN called on a table
   that earlier writes have left, at a time of the caller's *)

Messiah   == <<"M", "e", "s", "s", "i", "a", "h">>
ShortIsbn == <<"1", "2", "3", "4", "5">>

\* rows that writes at or before Day have left: a 7-day row written at Day,
\* a 365-day row written at Day, a row that had expired before Day
LookupRows ==
  {[NoRow EXCEPT !.id = 1, !.title = Dune, !.author = FrankHerbert,
                 !.isbn = Isbn13, !.coverUrl = <<"cover1">>,
                 !.source = "amazon",
                 !.expiresAt = Day + CACHE_DURATION_AMAZON],
   [NoRow EXCEPT !.id = 2, !.title = DuneMessiah, !.author = FrankHerbert,
                 !.isbn = ShortIsbn, !.source = "google",
                 !.expiresAt = Day + CACHE_DURATION_GOOGLE],
   [NoRow EXCEPT !.id = 3, !.title = Messiah, !.author = FrankHerbert,
                 !.source = "amazon", !.expiresAt = Day - 1]}

\* the times of the lookups: the day of the writes, the last minute of the
\* 7-day row, the day after
LookupTimes == {Day, Day + CACHE_DURATION_AMAZON, 2 * Day + CACHE_DURATION_AMAZON}

\* the calls of findInCache: title, author
FindInputs ==
  {<<Dune, FrankHerbert>>, <<DuneSpaced, Herbert>>, <<DuneMessiah, FrankHerbert>>}

\* the calls of findByISBN
IsbnInputs == {Isbn13, ShortIsbn, <<>>}

InitLookup ==
  /\ store \in SUBSET LookupRows
  /\ nextId = 4
  /\ now \in LookupTimes
  /\ limiter = [p \in Providers |-> 0]
  /\ faults = 0
  /\ ops = 0
  /\ proc = [p \in Procs |-> Idle]

\* findInCache is called with (title, author)
BeginFindInCache(p, title, author) ==
  /\ Free(p)
  /\ proc' = [proc EXCEPT ![p] =
       CallFindInCache([Fresh("findInCache") EXCEPT !.title = title,
                                                    !.author = author],
                       title, author, "lookup")]
  /\ UNCHANGED <<store, nextId, now, limiter, faults, ops>>

\* findByISBN is called with isbn: it returns at once when the ISBN is empty
\* or shorter than 10, else it goes to its query
BeginFindByISBN(p, isbn) ==
  /\ Free(p)
  /\ proc' = [proc EXCEPT ![p] =
       IF ~Truthy(isbn) \/ Len(isbn) < 10
       THEN [Fresh("findByISBN") EXCEPT !.isbn = isbn, !.pc = "done"]
       ELSE [Fresh("findByISBN") EXCEPT !.isbn = isbn, !.pc = "isbn_query"]]
  /\ UNCHANGED <<store, nextId, now, limiter, faults, ops>>

\* findByISBN: the query; a failure is logged and undefined returned
FindByISBNQuery(p) ==
  LET me == proc[p]
  IN  /\ me.pc = "isbn_query"
      /\ \/ /\ Fault
            /\ proc' = [proc EXCEPT ![p] = [me EXCEPT !.pc = "done"]]
         \/ /\ UNCHANGED faults
            /\ \E book \in findByISBN(store, me.isbn, now) :
                 proc' = [proc EXCEPT ![p] =
                   [me EXCEPT !.pc = "done", !.returned = book]]
      /\ UNCHANGED <<store, nextId, now, limiter, ops>>

NextLookup ==
  \/ \E in \in FindInputs : BeginFindInCache(1, in[1], in[2])
  \/ \E isbn \in IsbnInputs : BeginFindByISBN(1, isbn)
  \/ FcExact(1)
  \/ FcPartial(1)
  \/ FindByISBNQuery(1)

SpecLookup == InitLookup /\ [][NextLookup]_vars

-----------------------------------------------------------------------------
(* The maintenance operations on a table that earlier calls have left *)

\* rated rows: one that a generated rating and then a cover from the second
\* catalog have left with 7 days to live, one with generated content, one
\* written without a source by an earlier version and expired, one that a
\* write without a source of its own has left with source google
MaintRows ==
  {[NoRow EXCEPT !.id = 1, !.title = Dune, !.author = FrankHerbert,
                 !.isbn = Isbn13, !.coverUrl = <<"cover1">>,
                 !.rating = <<"4", ".", "5">>, !.source = "amazon",
                 !.expiresAt = Day + CACHE_DURATION_AMAZON],
   [NoRow EXCEPT !.id = 2, !.title = DuneMessiah, !.author = FrankHerbert,
                 !.rating = <<"4", ".", "3">>, !.summary = ASaga,
                 !.source = "openai", !.expiresAt = Day + 120 * Day],
   [NoRow EXCEPT !.id = 3, !.title = Messiah, !.author = FrankHerbert,
                 !.rating = <<"3">>, !.summary = <<"o", "l", "d">>,
                 !.expiresAt = Day - 1],
   [NoRow EXCEPT !.id = 4, !.title = Arrakis, !.author = Herbert,
                 !.rating = <<"4">>, !.metadata = <<"meta1">>,
                 !.source = "google",
                 !.expiresAt = Day + CACHE_DURATION_GOOGLE]}

InitMaint ==
  /\ store \in SUBSET MaintRows
  /\ nextId = 5
  /\ now \in LookupTimes
  /\ limiter = [p \in Providers |-> 0]
  /\ faults = 0
  /\ ops = 0
  /\ proc = [p \in Procs |-> Idle]

NextMaint ==
  \/ CleanupExpired(1)
  \/ CleanupNonOpenAIRatings(1)
  \/ \E in \in ResetInputs : ClearCacheForTesting(1, in[1], in[2])

SpecMaint == InitMaint /\ [][NextMaint]_vars

-----------------------------------------------------------------------------
(* The provider calls of two invocations that run at once: each process
   makes one invocation of getEnhancedRating, getEnhancedSummary or
   searchBooksByTitle *)

\* the table is empty or holds the row of 'Dune' that the second catalog
\* has left; the limiter has counted no permit, or has counted the permits of
\* Open Library out in the current window
InitGate ==
  /\ store \in {{}, {r \in LookupRows : r.title = Dune}}
  /\ nextId = 4
  /\ now = Day
  /\ limiter \in {[p \in Providers |-> 0],
                  [p \in Providers |-> IF p = "open-library" THEN Budget ELSE 0]}
  /\ faults = 0
  /\ ops = 0
  /\ proc = [p \in Procs |-> Idle]

BeginGate(p) ==
  /\ proc[p].pc = "idle"
  /\ \/ BeginRating(p, Dune, FrankHerbert, Null, TRUE)
     \/ BeginSummary(p, Dune, FrankHerbert, Null, TRUE)
     \/ BeginSearch(p, Dune)

StepGate(p) ==
  \/ FcExact(p)
  \/ FcPartial(p)
  \/ RatingLimit(p)
  \/ RatingCall(p, {<<"4", ".", "5">>})
  \/ RatingUpdate(p)
  \/ SummaryLimit(p)
  \/ SummaryCall(p, {ASaga})
  \/ SummaryUpdate(p)
  \/ CbDirect(p)
  \/ CbUpdate(p)
  \/ CbWrite(p)
  \/ SearchLimit(p)
  \/ SearchGoogle(p, GoogleAnswers)
  \/ SearchFallbackLimit(p)
  \/ SearchOpenLibrary(p, OpenLibraryAnswers)

NextGate ==
  \E p \in Procs : BeginGate(p) \/ StepGate(p)

SpecGate == InitGate /\ [][NextGate]_vars

-----------------------------------------------------------------------------
(* getRecommendations on its own: one call, on candidates and preferences
   drawn from those below *)

Mythos     == <<"M", "y", "t", "h", "o", "s">>
StephenFry == <<"S", "t", "e", "p", "h", "e", "n", " ", "F", "r", "y">>

\* the candidates: one without a rating, one with a rating and a summary,
\* one whose rating is no number, one without a title
RecBooks ==
  {[NoBook EXCEPT !.title = Dune, !.author = FrankHerbert,
                  !.categories = <<<<"S", "c", "i", "e", "n", "c", "e", " ", "F", "i", "c", "t", "i", "o", "n">>>>],
   [NoBook EXCEPT !.title = DuneMessiah, !.author = FrankHerbert,
                  !.rating = <<"4", ".", "5">>, !.summary = ASaga],
   [NoBook EXCEPT !.title = Mythos, !.author = StephenFry,
                  !.rating = <<"n", "/", "a">>,
                  !.categories = <<<<"N", "o", "n", "-", "F", "i", "c", "t", "i", "o", "n">>>>],
   [NoBook EXCEPT !.author = FrankHerbert]}

\* lists of at most MaxCandidates of them
MaxCandidates == 3

RecCandidates ==
  UNION {[1..n -> RecBooks] : n \in 0..MaxCandidates}

ReadDune      == [NoEntry EXCEPT !.Title = <<"d", "u", "n", "e">>, !.Author = FrankHerbert,
                                 !.MyRating = <<"5">>]
UnreadMythos  == [NoEntry EXCEPT !.Title = <<"M", "y", "t", "h", "o", "s", "!">>, !.Author = StephenFry,
                                 !.MyRating = <<"0">>]
UnratedMessiah == [NoEntry EXCEPT !.Title = DuneMessiah]
HalfStarDune  == [NoEntry EXCEPT !.Title = <<"d", "u", "n", "e">>, !.MyRating = <<"0", ".", "5">>]

\* the preferences: genres and Goodreads data
RecPreferences ==
  {[genres |-> g, goodreadsData |-> d] :
     g \in {<<>>, <<<<"S", "c", "i", "e", "n", "c", "e", " ", "F", "i", "c", "t", "i", "o", "n">>, <<"N", "o", "n", "-", "F", "i", "c", "t", "i", "o", "n">>>>},
     d \in {<<>>, <<ReadDune>>, <<UnreadMythos>>, <<UnratedMessiah>>,
            <<HalfStarDune>>, <<UnreadMythos, ReadDune>>}}

BeginRecommend(p) ==
  /\ proc[p].pc = "idle"
  /\ \E books \in RecCandidates, preferences \in RecPreferences :
       GetRecommendations(p, books, preferences)

NextRecommend == BeginRecommend(1)

SpecRecommend == Init /\ [][NextRecommend]_vars

-----------------------------------------------------------------------------
(* getEnhancedRating on a table that earlier writes have left, without
   ratings or with them: up to MaxOps calls, one after the other *)

DuneMessiahNovel ==
  <<"D", "u", "n", "e", " ", "M", "e", "s", "s", "i", "a", "h", ":", " ",
    "A", " ", "N", "o", "v", "e", "l">>

\* the calls: a title a row has, a title that contains the titles of two
\* rows, the title of a row that has expired, a title with the ISBN of
\* another row
ShelfRatingInputs ==
  {<<Dune, FrankHerbert, Null>>, <<DuneMessiahNovel, FrankHerbert, Null>>,
   <<Messiah, FrankHerbert, Null>>, <<Arrakis, FrankHerbert, Isbn13>>}

InitShelf ==
  /\ store \in (SUBSET LookupRows) \cup (SUBSET MaintRows)
  /\ nextId = 5
  /\ now = Day
  /\ limiter = [p \in Providers |-> 0]
  /\ faults = 0
  /\ ops = 0
  /\ proc = [p \in Procs |-> Idle]

BeginShelf(p) ==
  \E in \in ShelfRatingInputs, configured \in BOOLEAN :
    BeginRating(p, in[1], in[2], in[3], configured)

StepShelf(p) ==
  \/ FcExact(p)
  \/ FcPartial(p)
  \/ RatingISBN(p)
  \/ RatingLimit(p)
  \/ RatingCall(p, RatingTexts)
  \/ RatingUpdate(p)
  \/ CbDirect(p)
  \/ CbUpdate(p)
  \/ CbWrite(p)

NextShelf ==
  \/ BeginShelf(1)
  \/ StepShelf(1)

SpecShelf == InitShelf /\ [][NextShelf]_vars

-----------------------------------------------------------------------------
(* Two invocations at once, on an empty table or on one that holds the row
   they write to *)

InitRace ==
  /\ store \in {{}, {r \in LookupRows : r.title = Dune}}
  /\ nextId = 4
  /\ now = Day
  /\ limiter = [p \in Providers |-> 0]
  /\ faults = 0
  /\ ops = 0
  /\ proc = [p \in Procs |-> Idle]

SpecRace == InitRace /\ [][NextConc]_vars
----------------------------------------------------------------------------
(* Properties *)

\* the invocation of the specifications that run one at a time
call == proc[1]

\* the key of a row or of a write: title and author, case-folded and trimmed
KeyOf(r) == <<toLowerCase(trim(r.title)), toLowerCase(trim(r.author))>>

\* the fields of a write that cacheBook stores when they are not empty
WrittenFields == {"isbn", "coverUrl", "rating", "summary", "metadata"}

\* C1: whatever sequence of cacheBook, getEnhancedRating, getEnhancedSummary,
\* cleanupExpired, cleanupNonOpenAIRatings and clearCacheForTesting has run,
\* one after the other, no two stored rows have the same case-folded and
\* trimmed (title, author); and a cacheBook whose key already had a row
\* returns with the rows the store had before: it has inserted none.
C1_OneEntryPerKey ==
  /\ \A r, q \in store : KeyOf(r) = KeyOf(q) => r = q
  /\ (/\ call.pc = "done" /\ call.op = "cacheBook" /\ ~call.threw
      /\ \E r \in call.pre : KeyOf(r) = KeyOf(call.bookData))
     => {r.id : r \in store} = {r.id : r \in call.pre}

\* a cacheBook has updated the row its key has, which was stored under
\* another spelling of the title
C1_Witness ==
  /\ call.pc = "done" /\ call.op = "cacheBook" /\ ~call.threw
  /\ call.directMatch # NoRow
  /\ call.directMatch.title # call.bookData.title
  /\ call.writes = 1

\* C2: when two invocations that write the same case-folded and trimmed
\* (title, author) into a store without it have both returned, whatever the
\* order of their awaits, the store holds no two rows with the same key.
C2_ConcurrentUpsertsOneRow ==
  (\A p \in Procs : proc[p].pc = "done")
  => \A r, q \in store : KeyOf(r) = KeyOf(q) => r = q

\* C3: once cacheBook(bookData) has returned and before the clock moves, for
\* a write whose explicit expiresAt, if any, is in the future, findInCache
\* with the title and author of the write returns a row, the row has the key
\* of the write and holds every non-empty isbn, coverUrl, rating, summary and
\* metadata of the write.
C3_UpsertThenFind ==
  (/\ call.pc = "done" /\ call.op = "cacheBook" /\ ~call.threw
   /\ now = call.startedAt
   /\ (call.bookData.expiresAt = NoDate \/ call.bookData.expiresAt > now))
  => \A r \in findInCache(store, call.bookData.title, call.bookData.author, now) :
       /\ r # NoRow
       /\ KeyOf(r) = KeyOf(call.bookData)
       /\ \A f \in WrittenFields :
            Truthy(call.bookData[f]) => r[f] = call.bookData[f]

\* C4: when cacheBook has returned from the second of two calls in a row with
\* the same data, and no store access has failed, the store has the rows it
\* had before the second call (none inserted), each with the fields it had
\* except expiresAt, at most one of them has the key of the write, and the
\* row written has the expiresAt the second call computes: the explicit
\* one, else the time of the call plus the duration of the source.
C4_UpsertTwice ==
  (/\ call.pc = "done" /\ call.op = "cacheBook" /\ call.repeat
   /\ ~call.threw /\ faults = 0)
  => /\ {r.id : r \in store} = {r.id : r \in call.pre}
     /\ \A r \in store : \E q \in call.pre :
          [r EXCEPT !.expiresAt = NoDate] = [q EXCEPT !.expiresAt = NoDate]
     /\ Cardinality({r \in store : KeyOf(r) = KeyOf(call.bookData)}) <= 1
     /\ call.returned.expiresAt =
          computeExpiresAt(call.bookData, determineSource(call.bookData),
                           call.startedAt)

\* C5: the string getEnhancedRating returns is a digit, a dot and a digit,
\* and its value is between 1.0 and 5.0, on every path it returns by.
C5_RatingWellFormed ==
  (call.pc = "done" /\ call.op = "rating")
  => /\ IsOneDigitDotOneDigit(call.result)
     /\ InRatingRange(parseFloat(call.result))

\* C6: when the first findInCache of getEnhancedRating returns an unexpired
\* row of source openai with a rating, getEnhancedRating returns that rating
\* as stored and has, in that invocation, asked the rate limiter nothing,
\* called the provider never and written nothing to the store.
C6_CachedGenerativeRating ==
  (/\ call.pc = "done" /\ call.op = "rating"
   /\ Truthy(call.cachedBook.rating) /\ call.cachedBook.source = "openai")
  => /\ call.cachedBook \in
          findInCache(call.pre, call.title, call.author, call.startedAt)
     /\ call.cachedBook.expiresAt >= call.startedAt
     /\ call.result = call.cachedBook.rating
     /\ call.checks = 0 /\ call.calls = 0 /\ call.writes = 0
     /\ store = call.pre

\* getEnhancedRating has returned the rating of a cached openai row while
\* the provider was configured
C6_Witness ==
  /\ call.pc = "done" /\ call.op = "rating" /\ call.configured
  /\ Truthy(call.cachedBook.rating) /\ call.cachedBook.source = "openai"
  /\ call.result = call.cachedBook.rating

\* C7: when checkAndIncrement('openai') answers false, getEnhancedRating and
\* getEnhancedSummary return without throwing and without a provider call:
\* the rating returned is the estimate, which is not empty, and the summary
\* returned is the summary the caller gave if that is not empty, else null.
C7_RateLimited ==
  (/\ call.pc = "done" /\ call.op \in {"rating", "summary"}
   /\ call.permit = "refused")
  => /\ ~call.threw
     /\ call.calls = 0
     /\ call.op = "rating" =>
          /\ call.result = getEstimatedBookRating(call.title, call.author)
          /\ Truthy(call.result)
     /\ call.op = "summary" =>
          /\ call.result = OrElse(call.existingSummary, Null)
          /\ Truthy(call.result) \/ call.result = Null

\* getEnhancedRating was refused by the rate limiter and has returned
C7_Witness ==
  /\ call.pc = "done" /\ call.op = "rating"
  /\ call.permit = "refused" /\ call.checks = 1
  /\ limiter["openai"] = Budget

\* the provider of getEnhancedRating answered without a rating in [1, 5]
MalformedRating ==
  /\ call.op = "rating" /\ call.calls = 1
  /\ ~call.providerFailed /\ ~call.isOpenAIRating

\* the provider of getEnhancedSummary answered with blank text
BlankSummary ==
  /\ call.op = "summary" /\ call.calls = 1
  /\ ~call.providerFailed /\ call.summary = Null

\* C8: when a request to a provider has failed, or its answer was unusable,
\* the operation returns without throwing: searchBooksByTitle no books,
\* getEnhancedRating the estimate, getEnhancedSummary the summary the caller
\* gave (null if none) after a failure and null after a blank answer.
C8_ProviderFailureContained ==
  (call.pc = "done" /\ (call.providerFailed \/ MalformedRating \/ BlankSummary))
  => /\ ~call.threw
     /\ call.op = "search" => call.books = <<>>
     /\ call.op = "rating" =>
          call.result = getEstimatedBookRating(call.title, call.author)
     /\ (call.op = "summary" /\ call.providerFailed) =>
          call.result = OrElse(call.existingSummary, Null)
     /\ BlankSummary => call.result = Null

\* searchBooksByTitle has returned after Open Library, asked because Google
\* Books had nothing, failed
C8_Witness ==
  /\ call.pc = "done" /\ call.op = "search"
  /\ call.providerFailed /\ call.calls = 2
  /\ call.books = <<>>

\* C9: when the write of a resolved rating or summary has failed,
\* getEnhancedRating returns the rating it took from the provider's answer,
\* or the rating of the ISBN row it was writing back, and getEnhancedSummary
\* the summary it took from the provider's answer.
C9_WriteFailureKeepsResult ==
  (call.pc = "done" /\ call.writeFailed)
  => /\ (call.op = "rating" /\ call.isOpenAIRating) => call.result = call.rating
     /\ (call.op = "rating" /\ call.cbRet = "r_isbn") =>
          call.result = call.isbnBook.rating
     /\ call.op = "summary" => call.result = call.summary

\* C10: when getEnhancedRating found neither a cached openai rating nor a
\* rating by ISBN, and the provider is not configured or the rate limiter
\* refused, it returns the rating getPopularBookRating has for the title and
\* author, and the estimate only when the table has none.
C10_VerifiedTable ==
  (/\ call.pc = "done" /\ call.op = "rating"
   /\ ~(Truthy(call.cachedBook.rating) /\ call.cachedBook.source = "openai")
   /\ call.cbRet # "r_isbn"
   /\ (~call.configured \/ call.permit = "refused"))
  => call.result =
       IF getPopularBookRating(call.title, call.author) # Null
       THEN getPopularBookRating(call.title, call.author)
       ELSE getEstimatedBookRating(call.title, call.author)

\* C11: when the first findInCache of getEnhancedRating gave no openai rating,
\* an ISBN was given and findByISBN returned an unexpired row whose rating
\* parses to a number in [1, 5], and no store access failed,
\* getEnhancedRating returns that rating as stored, has asked the rate
\* limiter nothing and called the provider never, and findInCache(title,
\* author) right afterwards returns a row with that rating.
C11_IsbnRating ==
  (/\ call.pc = "done" /\ call.op = "rating"
   /\ faults = 0 /\ now = call.startedAt
   /\ ~(Truthy(call.cachedBook.rating) /\ call.cachedBook.source = "openai")
   /\ Truthy(call.isbn)
   /\ Truthy(call.isbnBook.rating)
   /\ InRatingRange(parseFloat(call.isbnBook.rating)))
  => /\ call.isbnBook \in findByISBN(call.pre, call.isbn, call.startedAt)
     /\ call.result = call.isbnBook.rating
     /\ call.checks = 0 /\ call.calls = 0
     /\ \A r \in findInCache(store, call.title, call.author, now) :
          r # NoRow /\ r.rating = call.isbnBook.rating

\* getEnhancedRating has returned the rating of a row found by ISBN and
\* stored under another title
C11_Witness ==
  /\ call.pc = "done" /\ call.op = "rating" /\ faults = 0
  /\ call.cbRet = "r_isbn" /\ call.writes = 1
  /\ call.isbnBook.title # call.title
  /\ call.result = call.isbnBook.rating
  /\ \E r \in store : r.title = call.title /\ r.rating = call.result

\* the distance of two numbers
Distance(a, b) == IF a >= b THEN a - b ELSE b - a

\* C12: when the provider has answered getEnhancedRating and no store access
\* failed: if the first number of the answer is in [1, 5], the rating
\* returned is that number rounded to one fractional digit, written as a
\* digit, a dot and a digit; if the answer has no number, or its first
\* number is outside [1, 5], the rating returned is the estimate, and no
\* number of the answer.  "About 4.25/5" gives "4.3", "10" the estimate.
C12_ProviderRating ==
  (/\ call.pc = "done" /\ call.op = "rating"
   /\ call.calls = 1 /\ ~call.providerFailed /\ faults = 0)
  => LET first == firstNumber(call.ratingText)
     IN  /\ IF first # Null /\ InRatingRange(parseFloat(first))
            THEN /\ IsOneDigitDotOneDigit(call.result)
                 /\ InRatingRange(parseFloat(call.result))
                 /\ Distance(parseFloat(call.result).v, parseFloat(first).v) <= 5
            ELSE call.result = getEstimatedBookRating(call.title, call.author)
         /\ call.ratingText = <<"A", "b", "o", "u", "t", " ", "4", ".", "2", "5", "/", "5">>
              => call.result = <<"4", ".", "3">>
         /\ call.ratingText = <<"1", "0">>
              => call.result = getEstimatedBookRating(call.title, call.author)

\* getEnhancedRating has returned and stored "4.3" for the answer
\* "About 4.25/5"
C12_Witness ==
  /\ call.pc = "done" /\ call.op = "rating"
  /\ call.ratingText = <<"A", "b", "o", "u", "t", " ", "4", ".", "2", "5", "/", "5">>
  /\ call.result = <<"4", ".", "3">>
  /\ call.writes = 1
  /\ \E r \in store : r.rating = <<"4", ".", "3">> /\ r.source = "openai"

\* C13: when every row findInCache can return for the title and author of a
\* getEnhancedSummary is an unexpired openai row with a summary, and no
\* store access fails, getEnhancedSummary returns the summary of such a row
\* and calls no provider, whether or not the provider is configured or the
\* rate limiter has permits left; and it calls the provider only when its
\* findInCache gave no such row.
C13_CachedSummaryFirst ==
  /\ (/\ call.pc = "done" /\ call.op = "summary" /\ faults = 0
      /\ \A r \in findInCache(call.pre, call.title, call.author, call.startedAt) :
           Truthy(r.summary) /\ r.source = "openai")
     => /\ \E r \in findInCache(call.pre, call.title, call.author, call.startedAt) :
             call.result = r.summary
        /\ call.calls = 0
  /\ (call.op = "summary" /\ call.calls > 0)
     => ~(Truthy(call.cachedBook.summary) /\ call.cachedBook.source = "openai")

\* the source the write of bookData is to be stored with
ExpectedSource(bookData) ==
  IF Truthy(bookData.summary) \/ Truthy(bookData.rating) THEN "openai"
  ELSE IF bookData.source # NoSource THEN bookData.source
  ELSE "google"

\* C14: the row a cacheBook has written, by insert, by update of the row with
\* its key or by update of the row findInCache found, has source openai when
\* the write has a non-empty summary or rating, whatever source was
\* supplied, else the supplied source, else google; so have the rows written
\* by the cacheBook calls inside getEnhancedRating and getEnhancedSummary.
C14_StoredSource ==
  (/\ call.pc = "done" /\ ~call.threw /\ ~call.writeFailed
   /\ call.bookData # NoData /\ call.writes >= 1)
  => /\ call.op = "cacheBook" =>
          /\ call.returned \in store
          /\ call.returned.source = ExpectedSource(call.bookData)
     /\ \A r \in store \ call.pre : r.source = ExpectedSource(call.bookData)

\* a cacheBook with a rating and the source google has updated the row that
\* findInCache found, which is stored as openai
C14_Witness ==
  /\ call.pc = "done" /\ call.op = "cacheBook" /\ ~call.threw
  /\ call.directMatch = NoRow /\ call.found # NoRow
  /\ call.bookData.source = "google" /\ Truthy(call.bookData.rating)
  /\ call.returned.source = "openai"
  /\ call.returned.id = call.found.id

\* C15: a cacheBook that carries neither a rating nor a summary and updates a
\* row which has source openai and a rating as getEnhancedRating writes it
\* (a digit, a dot, a digit) or a summary leaves the source of that row
\* openai.
C15_GenerativeSourceKept ==
  (/\ call.pc = "done" /\ call.op = "cacheBook" /\ ~call.threw
   /\ ~Truthy(call.bookData.rating) /\ ~Truthy(call.bookData.summary))
  => \A q \in call.pre :
       (/\ q.id = call.returned.id
        /\ q.source = "openai"
        /\ IsOneDigitDotOneDigit(q.rating) \/ Truthy(q.summary))
       => /\ call.returned.source = "openai"
          /\ \E r \in store : r.id = q.id /\ r.source = "openai"


\* C16: a cacheBook that updates a row (directly matched or found by
\* findInCache) returns the stored row, in which each of isbn, coverUrl,
\* rating, summary and metadata is the incoming value when that value is not
\* empty and the value the row had before otherwise; title, author and id
\* are the row's own.
C16_FieldsKeptOrReplaced ==
  (/\ call.pc = "done" /\ call.op = "cacheBook" /\ ~call.threw)
  => \A q \in call.pre :
       q.id = call.returned.id
       => /\ call.returned \in store
          /\ call.returned.title = q.title
          /\ call.returned.author = q.author
          /\ \A f \in WrittenFields :
               call.returned[f] = IF Truthy(call.bookData[f])
                                    THEN call.bookData[f]
                                    ELSE q[f]

\* an update of a row with rating '4' and an ISBN by a write with rating
\* '4.5' and no ISBN: the rating is replaced, the ISBN kept
C16_Witness ==
  /\ call.pc = "done" /\ call.op = "cacheBook" /\ ~call.threw
  /\ ~Truthy(call.bookData.isbn)
  /\ call.bookData.rating = <<"4", ".", "5">>
  /\ call.returned.rating = <<"4", ".", "5">>
  /\ call.returned.isbn = Isbn13
  /\ \E q \in call.pre : q.id = call.returned.id /\ q.rating = <<"4">>

\* C17: every row that a cacheBook, a getEnhancedRating or a
\* getEnhancedSummary has inserted or updated has, when the operation
\* returns, an expiresAt later than the time the operation started at,
\* whether the write carried an expiresAt or not.
C17_ExpiresAfterWrite ==
  (/\ call.pc = "done" /\ call.op \in {"cacheBook", "rating", "summary"}
   /\ now = call.startedAt)
  => \A r \in store \ call.pre : r.expiresAt > call.startedAt

\* the length of life of a row written at the start time of the operation,
\* in whole days
LifeDays(r) == (r.expiresAt - call.startedAt) \div Day

\* C18: a row that a cacheBook, a getEnhancedRating or a getEnhancedSummary
\* has inserted or updated lives 365 days when its source is google, 7 days
\* when it is amazon, and between 90 and 120 days when it is openai
\* (whichever path wrote it: the generated rating, the generated summary,
\* the write-back of the ISBN row's rating, a cacheBook carrying a rating).
\* Writes that carry their own expiresAt and are not generative are left
\* aside.
C18_LifetimeByClass ==
  (/\ call.pc = "done" /\ call.op \in {"cacheBook", "rating", "summary"}
   /\ now = call.startedAt /\ faults = 0)
  => \A r \in store \ call.pre :
       /\ (r.source = "google" /\ call.bookData.expiresAt = NoDate)
          => LifeDays(r) = 365
       /\ (r.source = "amazon" /\ call.bookData.expiresAt = NoDate)
          => LifeDays(r) = 7
       /\ r.source = "openai" => (LifeDays(r) >= 90 /\ LifeDays(r) <= 120)

\* C19: when a cacheBook starts on a store whose only row with the key of
\* the write has expired, findInCache for that key finds nothing, and when
\* the cacheBook has returned the store holds exactly one row with that key
\* and that row expires after the time of the write.
C19_ExpiredRowRewritten ==
  (/\ call.pc = "done" /\ call.op = "cacheBook" /\ ~call.threw
   /\ faults = 0 /\ now = call.startedAt
   /\ \E q \in call.pre :
        /\ KeyOf(q) = KeyOf(call.bookData)
        /\ q.expiresAt < call.startedAt
        /\ \A o \in call.pre : KeyOf(o) = KeyOf(call.bookData) => o = q)
  => /\ findInCache(call.pre, call.bookData.title, call.bookData.author,
                    call.startedAt) = {NoRow}
     /\ \E r \in store :
          /\ KeyOf(r) = KeyOf(call.bookData)
          /\ r.expiresAt > call.startedAt
          /\ \A o \in store : KeyOf(o) = KeyOf(call.bookData) => o = r

\* C20: the row a findInCache or a findByISBN returns, by the exact query or
\* by the partial one, does not expire before the time of the lookup; and a
\* findByISBN of an ISBN shorter than 10 characters never gets to its query:
\* it is over as soon as it is called, and has returned no row.
C20_NoExpiredRowReturned ==
  /\ (/\ call.pc = "done" /\ call.op \in {"findInCache", "findByISBN"}
      /\ call.returned # NoRow)
     => /\ call.returned \in store
        /\ call.returned.expiresAt >= call.startedAt
  /\ (call.op = "findByISBN" /\ Len(call.isbn) < 10)
     => (call.pc = "done" /\ call.returned = NoRow)

\* a findInCache for 'Dune' by 'Frank Herbert' the day after that row
\* expired: the exact query passes the row over and the partial query
\* returns 'Dune Messiah'
C20_Witness ==
  /\ call.pc = "done" /\ call.op = "findInCache"
  /\ call.returned # NoRow
  /\ call.returned.expiresAt >= now
  /\ exactMatches(store, call.title, call.author, now) = {}
  /\ \E q \in store :
       /\ KeyOf(q) = <<toLowerCase(trim(call.title)), toLowerCase(trim(call.author))>>
       /\ q.expiresAt < now

\* the stored rows whose title is the query's title, lower-cased and
\* trimmed, whose author is the query's author or contains it or is
\* contained in it, and which have not expired at time t
ExactTitleRows(st, title, author, t) ==
  {r \in st :
     /\ toLowerCase(r.title) = toLowerCase(trim(title))
     /\ \/ includes(toLowerCase(r.author), toLowerCase(trim(author)))
        \/ includes(toLowerCase(trim(author)), toLowerCase(r.author))
     /\ r.expiresAt >= t}

\* the stored rows that match the query by containment of title and of
\* author, one way or the other, and have not expired at time t
ContainmentRows(st, title, author, t) ==
  {r \in st :
     /\ \/ includes(toLowerCase(r.title), toLowerCase(trim(title)))
        \/ includes(toLowerCase(trim(title)), toLowerCase(r.title))
     /\ \/ includes(toLowerCase(r.author), toLowerCase(trim(author)))
        \/ includes(toLowerCase(trim(author)), toLowerCase(r.author))
     /\ r.expiresAt >= t}

\* C21: a findInCache whose queries did not fail returns one of the rows
\* with the exact title when the store has one, a row that matches by
\* containment only when the store has no row with the exact title, and no
\* row when nothing matches; what it returns is one stored row or none.
C21_ExactBeatsPartial ==
  (/\ call.pc = "done" /\ call.op = "findInCache" /\ faults = 0)
  => LET exact   == ExactTitleRows(store, call.title, call.author, call.startedAt)
         partial == ContainmentRows(store, call.title, call.author, call.startedAt)
     IN  /\ exact # {} => call.returned \in exact
         /\ (exact = {} /\ partial # {}) => call.returned \in partial
         /\ partial = {} => call.returned = NoRow
         /\ call.returned = NoRow \/ call.returned \in store

\* a findInCache for 'Dune' by 'Frank Herbert' while 'Dune' and
\* 'Dune Messiah' are both stored and live: 'Dune' is returned
C21_Witness ==
  /\ call.pc = "done" /\ call.op = "findInCache" /\ faults = 0
  /\ call.returned \in ExactTitleRows(store, call.title, call.author, now)
  /\ \E o \in ContainmentRows(store, call.title, call.author, now) :
       o \notin ExactTitleRows(store, call.title, call.author, now)

\* C22: a cleanupExpired whose delete did not fail removes the rows that
\* expire at or before the time of the sweep and no other row, and returns
\* how many it removed; a cleanupExpired that follows one at the same time
\* removes nothing and returns 0.
C22_SweepExact ==
  [][(call'.op = "sweep" /\ ops' = ops + 1 /\ faults' = faults)
     => /\ store' = {r \in store : r.expiresAt > now}
        /\ call'.count = Cardinality(store) - Cardinality(store')
        /\ (call.op = "sweep" /\ call.startedAt = now /\ faults = 0)
           => (store' = store /\ call'.count = 0)]_vars

\* a sweep that has removed a row which expired at the very time of the
\* sweep, and has left another
C22_Witness ==
  /\ call.pc = "done" /\ call.op = "sweep" /\ faults = 0
  /\ call.count >= 1
  /\ store # {}
  /\ \E r \in call.pre \ store : r.expiresAt = call.startedAt

\* C23: when a cleanupNonOpenAIRatings none of whose statements failed has
\* returned, no stored row whose source is not openai (a row without a
\* source included) has a rating, and the count it returned is the number of
\* such rows that had a rating when it started; on the three rated rows
\* with sources google, openai and none it has returned 2.
C23_PurgeClearsRatings ==
  (/\ call.pc = "done" /\ call.op = "purge" /\ faults = 0)
  => /\ \A r \in store : r.source # "openai" => r.rating = Null
     /\ call.count = Cardinality({q \in call.pre :
                                    q.source # "openai" /\ q.rating # Null})
     /\ ({q.source : q \in call.pre} = {"google", "openai", NoSource}
         /\ Cardinality(call.pre) = 3
         /\ \A q \in call.pre : Truthy(q.rating))
        => call.count = 2

\* the purge of the three rated rows with sources google, openai and none
C23_Witness ==
  /\ call.pc = "done" /\ call.op = "purge" /\ faults = 0
  /\ Cardinality(call.pre) = 3
  /\ {q.source : q \in call.pre} = {"google", "openai", NoSource}
  /\ \A q \in call.pre : Truthy(q.rating)
  /\ call.count = 2

\* C24: a cleanupNonOpenAIRatings leaves every row with source openai as it
\* was, rating included, changes no field but the rating of any other row,
\* and neither inserts nor deletes a row; this whether its statements failed
\* or not.
C24_PurgeFrame ==
  (call.pc = "done" /\ call.op = "purge")
  => /\ {r.id : r \in store} = {q.id : q \in call.pre}
     /\ Cardinality(store) = Cardinality(call.pre)
     /\ \A q \in call.pre : \E r \in store :
          /\ r.id = q.id
          /\ q.source = "openai" => r = q
          /\ [r EXCEPT !.rating = Null] = [q EXCEPT !.rating = Null]

\* a purge that has cleared a rating while a row with source openai and a
\* rating was stored
C24_Witness ==
  /\ call.pc = "done" /\ call.op = "purge"
  /\ call.count >= 1
  /\ \E q \in call.pre : q.source = "openai" /\ Truthy(q.rating) /\ q \in store
  /\ \E q \in call.pre : q \notin store

\* the stored rows whose lower-cased title contains the lower-cased filter;
\* every row when there is no filter
TitleContains(st, titleFilter) ==
  IF Truthy(titleFilter)
  THEN {q \in st : includes(toLowerCase(q.title), toLowerCase(titleFilter))}
  ELSE st

\* what a clearCacheForTesting(preserveDescriptions, titleFilter) none of
\* whose statements failed has done when it returns
ResetPost(preserveDescriptions, titleFilter) ==
  LET sel == TitleContains(store, titleFilter)
  IN  IF preserveDescriptions \/ Truthy(titleFilter)
      THEN /\ Cardinality(store') = Cardinality(store)
           /\ call'.count = Cardinality(sel)
           /\ \A q \in store \ sel : q \in store'
           /\ \A q \in sel : \E r \in store' :
                /\ r.id = q.id
                /\ r.expiresAt < now
                /\ r.rating = q.rating
                /\ r.summary = IF preserveDescriptions THEN q.summary ELSE Null
                /\ r = [q EXCEPT !.expiresAt = r.expiresAt, !.summary = r.summary]
                /\ \A in \in FindInputs \cup {<<r.title, r.author>>} :
                     r \notin findInCache(store', in[1], in[2], now)
                /\ \A isbn \in IsbnInputs \cup {r.isbn} :
                     r \notin findByISBN(store', isbn, now)
      ELSE /\ store' = {}
           /\ call'.count = Cardinality(store)

\* C25: a clearCacheForTesting none of whose statements failed gives every
\* row whose title contains the filter (every row without a filter) an
\* expiresAt in the past, leaves its rating, leaves its summary when
\* descriptions are preserved and clears it when they are not, leaves the
\* other rows as they were, and returns the number of rows it selected;
\* without a filter and without preservation it deletes every row and returns
\* how many there were. No findInCache and no findByISBN returns a row it has
\* so marked.
C25_ResetForTesting ==
  [][\A in \in ResetInputs :
       (ClearCacheForTesting(1, in[1], in[2]) /\ faults' = faults)
       => ResetPost(in[1], in[2])]_vars

\* a reset with the filter 'Mess' and no preservation: a matching row has
\* lost its summary and has expired a minute ago, a row that does not match
\* is as it was
C25_Witness ==
  /\ call.pc = "done" /\ call.op = "reset" /\ faults = 0
  /\ call.count >= 1
  /\ \E q \in call.pre : \E r \in store :
       /\ r.id = q.id /\ Truthy(q.summary) /\ r.summary = Null
       /\ r.rating = q.rating /\ Truthy(r.rating)
       /\ q.expiresAt > call.startedAt
       /\ r.expiresAt = call.startedAt - 1
  /\ \E q \in call.pre : q \in store /\ q.expiresAt > call.startedAt

\* C26: a step that is not the delete of a cleanupExpired or of a
\* clearCacheForTesting (a step of cacheBook, findInCache, findByISBN,
\* getEnhancedRating, getEnhancedSummary or cleanupNonOpenAIRatings, or the
\* passing of time) removes no row: every row stored before it is stored
\* after it under the same id, with the same title and author.
C26_OnlySweepAndResetDelete ==
  [][~(call'.op \in {"sweep", "reset"} /\ ops' = ops + 1)
     => \A q \in store : \E r \in store' :
          r.id = q.id /\ r.title = q.title /\ r.author = q.author]_vars

\* a cacheBook has changed a row that was stored when it started, and the
\* row is stored under the id it had
C26_Witness ==
  /\ call.pc = "done" /\ call.op = "cacheBook" /\ ~call.threw
  /\ call.writes = 1
  /\ \E q \in call.pre : \E r \in store : r.id = q.id /\ r # q
  /\ Cardinality(store) = Cardinality(call.pre)

\* the requests the invocation of process p has sent to provider so far:
\* getEnhancedRating and getEnhancedSummary send theirs to openai,
\* searchBooksByTitle its first to google-books and its second to
\* open-library
CallsTo(p, provider) ==
  LET me == proc[p]
  IN  CASE me.op \in {"rating", "summary"} ->
             IF provider = "openai" THEN me.calls ELSE 0
        [] me.op = "search" ->
             IF provider = "google-books" THEN (IF me.calls >= 1 THEN 1 ELSE 0)
             ELSE IF provider = "open-library" THEN (IF me.calls >= 2 THEN 1 ELSE 0)
             ELSE 0
        [] OTHER -> 0

\* the provider whose request the invocation of process p is about to send
AboutToCall(p) ==
  CASE proc[p].pc \in {"r_call", "s_call"} -> "openai"
    [] proc[p].pc = "g_call"  -> "google-books"
    [] proc[p].pc = "ol_call" -> "open-library"
    [] OTHER -> "none"

\* C27: an invocation is about to send a request to a provider only after
\* the limiter has granted it a permit, and it gets there only in the step
\* in which the limiter counts one more permit for that provider; an
\* invocation the limiter has refused sends no further request; and with two
\* invocations running at once the requests sent to a provider are never
\* more than the permits the limiter has counted for it.
C27_GateBeforeCall ==
  [](/\ \A p \in Procs :
          /\ AboutToCall(p) # "none" => proc[p].permit = "granted"
          /\ proc[p].calls <= proc[p].checks
          /\ proc[p].permit = "refused"
             => (proc[p].pc = "done" /\ proc[p].calls < proc[p].checks)
      /\ \A provider \in Providers :
           CallsTo(1, provider) + CallsTo(2, provider)
             + Cardinality({q \in Procs : AboutToCall(q) = provider})
           <= limiter[provider])
  /\ [][\A p \in Procs :
          /\ (AboutToCall(p)' # "none" /\ proc'[p].pc # proc[p].pc)
             => limiter'[AboutToCall(p)'] = limiter[AboutToCall(p)'] + 1
          /\ proc'[p].calls > proc[p].calls
             => (AboutToCall(p) # "none" /\ AboutToCall(p)' # AboutToCall(p))]_vars

\* both invocations have asked for the generative provider: one has sent
\* its request, the other was refused and has sent none
C27_Witness ==
  /\ proc[1].pc = "done" /\ proc[2].pc = "done"
  /\ proc[1].op = "rating" /\ proc[2].op = "summary"
  /\ proc[1].permit = "granted" /\ proc[1].calls = 1
  /\ proc[2].permit = "refused" /\ proc[2].calls = 0 /\ proc[2].checks = 1
  /\ limiter["openai"] = Budget

\* C28: a searchBooksByTitle with a usable title and no failing request has
\* asked the limiter for Open Library exactly when Google Books gave it no
\* result, whether Google Books answered with no items or was not asked
\* because the limiter refused; it has not asked for Open Library after
\* Google Books answered with items.
C28_FallbackOrder ==
  (/\ call.pc = "done" /\ call.op = "search" /\ faults = 0
   /\ call.checks >= 1)
  => LET primaryGaveBooks ==
           call.checks = 1 /\ call.calls = 1 /\ Len(call.books) > 0
     IN  (call.checks = 2) <=> ~primaryGaveBooks

\* C29: every book a searchBooksByTitle has returned, from Google Books or
\* from Open Library, has an empty rating and an empty summary.
C29_NoRatingNoSummary ==
  (call.pc = "done" /\ call.op = "search")
  => \A i \in 1..Len(call.books) :
       /\ call.books[i].rating = <<>>
       /\ call.books[i].summary = <<>>

\* the entry of the Goodreads data has a rating that is a number above 0
PositiveRating(entry) ==
  /\ Truthy(entry.MyRating)
  /\ ~parseFloat(entry.MyRating).nan
  /\ parseFloat(entry.MyRating).v > 0

\* the normalized title of the book contains the normalized title of an
\* entry with a rating above 0, or is contained in it
ReadBefore(book, goodreadsData) ==
  \E i \in 1..Len(goodreadsData) :
    /\ PositiveRating(goodreadsData[i])
    /\ Truthy(goodreadsData[i].Title)
    /\ \/ includes(normalizeBookTitle(book.title),
                   normalizeBookTitle(goodreadsData[i].Title))
       \/ includes(normalizeBookTitle(goodreadsData[i].Title),
                   normalizeBookTitle(book.title))

\* C30: every book getRecommendations returns is marked alreadyRead, and is
\* among the books already read, exactly when the normalized title of its
\* candidate contains, or is contained in, the normalized title of an entry
\* of the Goodreads data whose rating is above 0; entries with a rating of 0
\* or without one do not count; a book among the new ones has alreadyRead
\* false.
C30_AlreadyReadPartition ==
  (call.pc = "done" /\ call.op = "recommend")
  => \A k \in 1..Len(call.books) :
       /\ call.books[k].alreadyRead
            <=> ReadBefore(call.candidates[call.from[k]],
                           call.preferences.goodreadsData)
       /\ call.books[k].isBookYouveRead <=> call.books[k].alreadyRead
       /\ call.books[k].isBookRecommendation <=> ~call.books[k].alreadyRead

-----------------------------------------------------------------------------
(* The order and the scores of the books getRecommendations returns *)

\* the score scoreBook gave the candidate behind the k-th book returned
ScoreAt(k) == scoreBook(call.candidates[call.from[k]], call.preferences)

\* the k-th and the l-th book returned are in the same partition
SamePartition(k, l) == call.books[k].alreadyRead <=> call.books[l].alreadyRead

NotBelow(k, l) ==
  /\ ~ScoreAt(k).nan /\ ~ScoreAt(l).nan
  /\ ScoreAt(k).v >= ScoreAt(l).v

\* m is the score of the k-th book returned, rounded to an integer
RoundedScore(k, m) ==
  /\ ~ScoreAt(k).nan /\ ~m.nan
  /\ 100 * m.v - 50 <= ScoreAt(k).v
  /\ ScoreAt(k).v < 100 * m.v + 50

\* C32: the list getRecommendations returns has the new books first and
\* the books already read after them; within each of the two the scores do
\* not rise from one book to the next; the matchScore of each book is its
\* score rounded to an integer. The order is the one of the sort: the
\* formatted books are collected in the order of the sorted lists, whatever
\* the order in which their formatting completes.
C32_PartitionsInOrder ==
  (call.pc = "done" /\ call.op = "recommend")
  => /\ \A k, l \in 1..Len(call.books) :
          k < l => /\ call.books[k].alreadyRead => call.books[l].alreadyRead
                   /\ SamePartition(k, l) => NotBelow(k, l)
     /\ \A k \in 1..Len(call.books) :
          RoundedScore(k, call.books[k].matchScore)

\* the rating the score of a book starts from: its rating when that is a
\* number, 0 when the book has none or it is no number (in hundredths)
StartingScore(book) ==
  IF Truthy(book.rating) /\ ~parseFloat(book.rating).nan
  THEN parseFloat(book.rating).v
  ELSE 0

\* C33: the score of every candidate is a number, not below 0: the rating
\* of the candidate, or 0 when it has no rating or the rating is no number,
\* plus the points for genres and authors, and 0 when that sum is negative.
C33_ScoreNonNegative ==
  (call.pc = "done" /\ call.op = "recommend")
  => \A k \in 1..Len(call.books) :
       LET book == call.candidates[call.from[k]]
           sum  == StartingScore(book) + 100 * bonusPoints(book, call.preferences)
       IN  /\ ~ScoreAt(k).nan
           /\ ScoreAt(k).v >= 0
           /\ ScoreAt(k).v = IF sum < 0 THEN 0 ELSE sum
           /\ ~call.books[k].matchScore.nan

\* a getEnhancedRating for (title, author) whose first findInCache has
\* returned row: where it stands after the check of the cached rating
LaterRating(title, author, row) ==
  ratingAfterCache([Idle EXCEPT !.op = "rating", !.title = title,
                                !.author = author, !.configured = TRUE,
                                !.found = row])

\* getEnhancedRating has returned the rating of a valid answer of the
\* provider, and has stored it
ResolvedByProvider ==
  /\ call.pc = "done" /\ call.op = "rating"
  /\ call.calls = 1 /\ call.isOpenAIRating
  /\ call.writes = 1 /\ ~call.threw
  /\ call.result = call.rating

\* C34: when getEnhancedRating has returned the rating of a valid answer of
\* the provider and no store access has failed, a getEnhancedRating for the
\* same title and author that follows at once, or at any time before the 90
\* days of the entry are over, returns that rating from the cache: whatever
\* row its findInCache returns, it returns the rating of that row, which is
\* the rating resolved, without asking the rate limiter or the provider.
C34_ResolvedRatingServedFromCache ==
  (ResolvedByProvider /\ faults = 0 /\ now = call.startedAt)
  => \A t \in {now, now + 89 * Day} :
       \A row \in findInCache(store, call.title, call.author, t) :
         LET later == LaterRating(call.title, call.author, row)
         IN  /\ later.pc = "done"
             /\ later.result = call.result
             /\ later.checks = 0 /\ later.calls = 0

\* getEnhancedRating has written a rating that is no valid answer of the
\* provider: the estimate, after an answer without a number in the range,
\* or the rating of a row of another source found by ISBN
WroteUnverifiedRating ==
  /\ call.pc = "done" /\ call.op = "rating" /\ ~call.threw
  /\ call.writes >= 1
  /\ \/ call.calls = 1 /\ ~call.isOpenAIRating
     \/ /\ call.calls = 0
        /\ Truthy(call.isbnBook.rating)
        /\ call.isbnBook.source # "openai"

\* C35: a rating that is the estimate (the provider gave no number, or one
\* out of range) or that was copied from a row of another source found by
\* its ISBN is never stored on a row with source openai: after a
\* getEnhancedRating that wrote such a rating, no row it wrote has a rating
\* and source openai.
C35_GenerativeRatingsAreVerified ==
  WroteUnverifiedRating
  => \A r \in store \ call.pre :
       Truthy(r.rating) => r.source # "openai"

\* the fields of a row that a writer may carry content into
ContentFields == {"rating", "summary", "isbn", "coverUrl"}

\* process p is about to write to a row: the update or insert of cacheBook,
\* the direct update of getEnhancedRating or of getEnhancedSummary
AboutToWrite(p) == proc[p].pc \in {"cb_update", "cb_write", "r_update", "s_update"}

\* the write that process p is about to make supplies field f itself
Supplies(p, f) ==
  LET me == proc[p]
  IN  CASE me.pc \in {"cb_update", "cb_write"} -> Truthy(me.bookData[f])
        [] me.pc = "r_update" -> f = "rating" \/ (f = "isbn" /\ Truthy(me.isbn))
        [] me.pc = "s_update" -> f = "summary"
        [] OTHER -> FALSE

\* C36: whatever the interleaving of the writers of a row (cacheBook, which
\* reads the row and then updates it, and the direct updates of
\* getEnhancedRating and getEnhancedSummary), a write changes a rating,
\* summary, isbn or coverUrl that the row holds only if the writer supplies
\* that field itself: no writer puts back the value, or the absence, that it
\* read before another writer committed.
C36_NoLostUpdate ==
  [][\A p \in Procs :
       (AboutToWrite(p) /\ proc'[p] # proc[p])
       => \A r \in store : \A w \in store' :
            w.id = r.id
            => \A f \in ContentFields :
                 (Truthy(r[f]) /\ w[f] # r[f]) => Supplies(p, f)]_vars

\* C37: once a row has expired, the rating and the summary it held are not
\* returned by a lookup again unless a later write supplies them anew: when
\* a cacheBook (called directly or by an enrichment) has written to a row
\* that had expired before the call and the row is visible to the lookups
\* again, the row has a rating only if the write carried one, and a summary
\* only if the write carried one.
C37_ExpiredContentNotRevived ==
  (/\ call.pc = "done" /\ call.op \in {"cacheBook", "rating", "summary"}
   /\ ~call.threw /\ now = call.startedAt)
  => \A q \in call.pre : \A r \in store :
       (/\ r.id = q.id
        /\ q.expiresAt < call.startedAt
        /\ r.expiresAt >= now)
       => /\ Truthy(r.rating) => Truthy(call.bookData.rating)
          /\ Truthy(r.summary) => Truthy(call.bookData.summary)

\* at time t a lookup on st can return row r: findInCache asked for the
\* title and author of r, or findByISBN asked for its ISBN
VisibleAt(st, r, t) ==
  \/ r \in findInCache(st, r.title, r.author, t)
  \/ r \in findByISBN(st, r.isbn, t)

\* C38: the sweep and the lookups agree on what has expired at a time t: a
\* cleanupExpired run at t deletes no row that findInCache or findByISBN
\* run at t on the same table would return, and every row it leaves is one
\* the lookups at t return; so too for a row whose expiresAt is t itself.
C38_SweepAgreesWithLookups ==
  (call.pc = "done" /\ call.op = "sweep" /\ faults = 0)
  => /\ \A q \in call.pre \ store : ~VisibleAt(call.pre, q, call.startedAt)
     /\ \A r \in store : VisibleAt(store, r, call.startedAt)

\* the id of the row the write process p is about to make goes to: the row
\* its direct query matched, else the row its findInCache found (0: none,
\* the write is an insert)
TargetOf(p) ==
  LET me == proc[p]
  IN  IF me.pc = "cb_update" THEN me.directMatch.id ELSE me.found.id

\* C39: no write of cacheBook, getEnhancedRating or getEnhancedSummary
\* changes the title or the author of a stored row: the row the write goes
\* to, matched exactly or found by findInCache, keeps its id, title and
\* author whatever title and author the call came with (only isbn,
\* coverUrl, rating, summary, source, metadata and expiresAt may change),
\* and every other row stays as it is.
C39_TitleAndAuthorKept ==
  [][\A p \in Procs :
       (AboutToWrite(p) /\ proc'[p] # proc[p])
       => \A q \in store : \E r \in store' :
            /\ r.id = q.id /\ r.title = q.title /\ r.author = q.author
            /\ q.id # TargetOf(p) => r = q]_vars

\* a cacheBook called with the author 'Herbert' has written its rating to
\* the row of 'Frank Herbert' that findInCache found, and the row still has
\* the author 'Frank Herbert'
C39_Witness ==
  /\ call.pc = "done" /\ call.op = "cacheBook" /\ ~call.threw
  /\ call.writes = 1
  /\ call.bookData.author = Herbert
  /\ call.found # NoRow /\ call.found.author = FrankHerbert
  /\ \E r \in store :
       /\ r.id = call.found.id /\ r.author = FrankHerbert
       /\ r.rating = call.bookData.rating /\ r # call.found

\* every candidate of the call has a title
HasTitles == \A i \in 1..Len(call.candidates) : Truthy(call.candidates[i].title)

\* C40: called with candidates that all have a title, whatever the
\* preferences, getRecommendations returns one book for each candidate: as
\* many books as candidates, each candidate behind exactly one of them, each
\* book with the title, author and ISBN of its candidate, so that the new
\* books and the books already read add up to the candidates; the list is
\* empty only when there is no candidate.
C40_OneBookPerCandidate ==
  (call.pc = "done" /\ call.op = "recommend" /\ HasTitles)
  => LET n == Len(call.candidates)
     IN  /\ Len(call.books) = n
         /\ Len(call.from) = n
         /\ \A i \in 1..n :
              Cardinality({k \in 1..n : call.from[k] = i}) = 1
         /\ \A k \in 1..n :
              /\ call.from[k] \in 1..n
              /\ call.books[k].title = call.candidates[call.from[k]].title
              /\ call.books[k].author = OrElse(call.candidates[call.from[k]].author,
                                               UnknownAuthor)
              /\ call.books[k].isbn = call.candidates[call.from[k]].isbn
         /\ Cardinality({k \in 1..n : ~call.books[k].alreadyRead})
            + Cardinality({k \in 1..n : call.books[k].alreadyRead}) = n

\* getRecommendations has returned three books for three candidates, one of
\* them already read, one of them with a rating that is no number
C40_Witness ==
  /\ call.pc = "done" /\ call.op = "recommend" /\ HasTitles
  /\ Len(call.candidates) = 3 /\ Len(call.books) = 3
  /\ \E k \in 1..3 : call.books[k].alreadyRead
  /\ \E k \in 1..3 : ~call.books[k].alreadyRead
  /\ \E k \in 1..3 : ScoreAt(k).nan
====
